---------------------------- MODULE Spec2Model ----------------------------
(***************************************************************************)
(* A model of the cortex MCP server core (FreePeak/cortex):                *)
(*   - pkg/plugin: DefaultRegistry and BaseProvider,                       *)
(*   - pkg/server: MCPServer (AddTool, RegisterProvider, ...),             *)
(*   - internal/usecases: ServerService (the tool handler map),            *)
(*   - internal/infrastructure/server: InMemoryToolRepository,             *)
(*   - internal/interfaces/stdio: StdioServer.Listen and MessageProcessor. *)
(*                                                                         *)
(* A tool name is a sequence of tokens; the token "cortex_" stands for the *)
(* seven characters of the platform prefix, so "cortex_" + name is         *)
(* <<"cortex_">> \o name and the empty string is << >>.                    *)
(***************************************************************************)
EXTENDS Integers, Sequences, FiniteSets, TLC

VARIABLES
    providers,    \* DefaultRegistry.providers: provider ID -> provider object
    toolMap,      \* DefaultRegistry.toolMap: tool name -> provider ID
    ptools,       \* per provider object: its current tool list (GetTools)
    pexec,        \* per provider object: the names that have an executor
    failing,      \* per provider object: GetTools currently returns an error
    srvTools,     \* MCPServer.tools: tool name -> tool descriptor
    srvHandlers,  \* MCPServer.handlers: tool name -> ToolHandler
    toolRepo,     \* InMemoryToolRepository.tools: tool name -> descriptor
    toolHandlers, \* ServerService.toolHandlers: name -> ToolHandlerFunc
    regLog,       \* history: the registered providers in the order of their
                  \* registration, each with the tool names it listed then
    everUnreg,    \* history: some provider has been unregistered
    registered,   \* history: the names given to RegisterToolHandler
    lpc,          \* StdioServer.Listen: where its loop is
    cur,          \* Listen: the line being handled, its number and response
    stdout,       \* the responses written to the output so far
    nread,        \* the number of lines Listen has read
    ctxDone,      \* the context given to Listen is cancelled
    listenRet,    \* what Listen returned, "running" before it returns
    stdinClosed,  \* the client has closed the input
    dispatch,     \* MessageProcessor.handlers: method -> MethodHandler
    initSeen,     \* history: Process has been given an initialize request
    resourceRepo, \* InMemoryResourceRepository.resources: URI -> resource
    promptRepo,   \* InMemoryPromptRepository.prompts: name -> prompt
    sent,         \* the notifications handed to the NotificationSender, each
                  \* with the keys of its collection at that moment
    mu,           \* DefaultRegistry.mu: who holds the write lock, who reads
    wk,           \* per worker (goroutine): the call it is in and where
    ret           \* the last call: what was called, with what, and its result

regVars == <<providers, toolMap>>
provVars == <<ptools, pexec, failing>>
srvVars == <<srvTools, srvHandlers, toolRepo, toolHandlers, registered>>
histVars == <<regLog, everUnreg>>
ioVars == <<lpc, cur, stdout, nread, ctxDone, listenRet, stdinClosed>>
procVars == <<dispatch, initSeen>>
svcVars == <<resourceRepo, promptRepo, sent>>
conVars == <<mu, wk>>
vars == <<regVars, provVars, srvVars, histVars, ioVars, procVars, svcVars,
          conVars, ret>>

-----------------------------------------------------------------------------
(* Bounds and input sets *)

\* the number of lines Listen reads before its input ends
MaxLines == 2
\* the number of notifications the sender is handed before the run ends
MaxSent == 3

\* the goroutines that call into the server at the same time
Workers == {"w1", "w2"}
NoWorker == "none"

PFX == "cortex_"
EmptyName == << >>
BaseNames == {<<"x">>, <<"y">>}

\* maps as functions with a finite domain
EmptyMap == [k \in {} |-> "nil"]
Put(m, k, v) == [j \in DOMAIN m \cup {k} |-> IF j = k THEN v ELSE m[j]]
Drop(m, ks) == [j \in DOMAIN m \ ks |-> m[j]]
Range(s) == {s[i] : i \in DOMAIN s}

\* Provider objects.  pa and pb are BaseProviders; pc is another
\* implementation of the Provider interface that carries pa's ID, lists a
\* tool with an empty name and whose GetTools may fail; pe has an empty ID;
\* pi fails GetProviderInfo; NilProv is the nil interface value.
NilProv == "nil"
BaseProvs == {"pa", "pb"}
CustomProvs == {"pc"}
Provs == BaseProvs \cup CustomProvs \cup {"pe", "pi"}
ProvID(p) == CASE p = "pa" -> "a" [] p = "pb" -> "b" [] p = "pc" -> "a"
               [] p = "pe" -> "" [] OTHER -> "i"
InfoFails(p) == p = "pi"
IDs == {"a", "b"}
CustomTools == <<EmptyName, <<"x">>, <<"y">>>>

NoErr == "nil"

-----------------------------------------------------------------------------
(* pkg/plugin/base_provider.go *)

\* BaseProvider.GetTools (never fails) and the GetTools of another Provider
GetTools(p) ==
    IF failing[p] THEN [err |-> TRUE, tools |-> << >>]
    ELSE [err |-> FALSE, tools |-> ptools[p]]

\* a nil *types.Tool
NilTool == <<"<nil>">>

RemoveAt(s, i) == SubSeq(s, 1, i - 1) \o SubSeq(s, i + 1, Len(s))
IndexOf(s, n) ==
    IF \E i \in DOMAIN s : s[i] = n
    THEN CHOOSE i \in DOMAIN s : s[i] = n /\ \A j \in 1..(i - 1) : s[j] # n
    ELSE 0

\* RegisterTool without the search for the name in p.tools
BaseRegisterToolNoSearch(tools, execs, tool, hasExecutor) ==
    IF tool = NilTool THEN
        [tools |-> tools, execs |-> execs, err |-> "tool cannot be nil"]
    ELSE IF ~hasExecutor THEN
        [tools |-> tools, execs |-> execs, err |-> "executor cannot be nil"]
    ELSE IF tool = EmptyName THEN
        [tools |-> tools, execs |-> execs, err |-> "tool name cannot be empty"]
    ELSE
        [tools |-> Append(tools, tool), execs |-> execs \cup {tool},
         err |-> NoErr]

\* BaseProvider.RegisterTool(tool, executor): the new list, executors, error
BaseRegisterToolResult(tools, execs, tool, hasExecutor) ==
    IF tool = NilTool THEN
        [tools |-> tools, execs |-> execs, err |-> "tool cannot be nil"]
    ELSE IF ~hasExecutor THEN
        [tools |-> tools, execs |-> execs, err |-> "executor cannot be nil"]
    ELSE IF tool = EmptyName THEN
        [tools |-> tools, execs |-> execs, err |-> "tool name cannot be empty"]
    ELSE IF \E i \in DOMAIN tools : tools[i] = tool THEN
        [tools |-> tools, execs |-> execs, err |-> "already registered"]
    ELSE
        [tools |-> Append(tools, tool), execs |-> execs \cup {tool},
         err |-> NoErr]

\* BaseProvider.UnregisterTool(toolName)
BaseUnregisterToolResult(tools, execs, name) ==
    LET index == IndexOf(tools, name) IN
    IF index = 0 THEN
        [tools |-> tools, execs |-> execs, err |-> "not found"]
    ELSE
        [tools |-> RemoveAt(tools, index), execs |-> execs \ {name},
         err |-> NoErr]

-----------------------------------------------------------------------------
(* pkg/plugin/registry.go *)

\* IndexTools with the collision check dropped: a later provider takes over
\* a name that is already indexed
RECURSIVE IndexToolsOverwrite(_, _, _)
IndexToolsOverwrite(tm, tools, id) ==
    IF tools = << >> THEN tm
    ELSE LET name == Head(tools) IN
         IF name = EmptyName THEN IndexToolsOverwrite(tm, Tail(tools), id)
         ELSE IndexToolsOverwrite(Put(tm, name, id), Tail(tools), id)

\* the loop of RegisterProvider over the provider's tools
RECURSIVE IndexTools(_, _, _)
IndexTools(tm, tools, id) ==
    IF tools = << >> THEN tm
    ELSE LET name == Head(tools) IN
         IF name = EmptyName THEN IndexTools(tm, Tail(tools), id)
         ELSE IF name \in DOMAIN tm THEN IndexTools(tm, Tail(tools), id)
         ELSE IndexTools(Put(tm, name, id), Tail(tools), id)

\* RegisterProvider with the check for an existing ID dropped
RegistryRegisterProviderNoIDCheck(provs, tm, p) ==
    IF p = NilProv \/ InfoFails(p) \/ ProvID(p) = "" THEN
        [providers |-> provs, toolMap |-> tm, err |-> "invalid provider"]
    ELSE LET got == GetTools(p) IN
        [providers |-> Put(provs, ProvID(p), p),
         toolMap |-> IF got.err THEN tm
                     ELSE IndexTools(tm, got.tools, ProvID(p)),
         err |-> NoErr]

\* DefaultRegistry.RegisterProvider
RegistryRegisterProvider(provs, tm, p) ==
    IF p = NilProv THEN
        [providers |-> provs, toolMap |-> tm, err |-> "provider cannot be nil"]
    ELSE IF InfoFails(p) THEN
        [providers |-> provs, toolMap |-> tm,
         err |-> "failed to get provider info"]
    ELSE IF ProvID(p) = "" THEN
        [providers |-> provs, toolMap |-> tm,
         err |-> "provider ID cannot be empty"]
    ELSE IF ProvID(p) \in DOMAIN provs THEN
        [providers |-> provs, toolMap |-> tm, err |-> "already registered"]
    ELSE LET got == GetTools(p) IN
         IF got.err THEN
            [providers |-> Put(provs, ProvID(p), p), toolMap |-> tm,
             err |-> NoErr]
         ELSE
            [providers |-> Put(provs, ProvID(p), p),
             toolMap |-> IndexTools(tm, got.tools, ProvID(p)),
             err |-> NoErr]

\* UnregisterProvider removing the names of the provider's current tool
\* list instead of the names it owns in the index
RegistryUnregisterProviderByList(provs, tm, id) ==
    IF id \notin DOMAIN provs THEN
        [providers |-> provs, toolMap |-> tm, err |-> "not registered"]
    ELSE
        [providers |-> Drop(provs, {id}),
         toolMap |-> Drop(tm, Range(ptools[provs[id]])), err |-> NoErr]

\* UnregisterProvider with the existence check dropped: an unknown ID is a
\* silent no-op
RegistryUnregisterProviderNoCheck(provs, tm, id) ==
    [providers |-> Drop(provs, {id}),
     toolMap |-> Drop(tm, {n \in DOMAIN tm : tm[n] = id}), err |-> NoErr]

\* UnregisterProvider handing each removed name over to a remaining provider
\* that lists it
RegistryUnregisterProviderHandOver(provs, tm, id) ==
    IF id \notin DOMAIN provs THEN
        [providers |-> provs, toolMap |-> tm, err |-> "not registered"]
    ELSE LET rest == Drop(provs, {id})
             toolsToRemove == {n \in DOMAIN tm : tm[n] = id}
             heirs(n) == {j \in DOMAIN rest :
                             /\ ~GetTools(rest[j]).err
                             /\ n \in Range(GetTools(rest[j]).tools)}
             kept == DOMAIN tm \ {n \in toolsToRemove : heirs(n) = {}}
         IN [providers |-> rest,
             toolMap |-> [n \in kept |->
                            IF n \in toolsToRemove
                            THEN CHOOSE j \in heirs(n) : TRUE ELSE tm[n]],
             err |-> NoErr]

\* DefaultRegistry.UnregisterProvider
RegistryUnregisterProvider(provs, tm, id) ==
    IF id \notin DOMAIN provs THEN
        [providers |-> provs, toolMap |-> tm, err |-> "not registered"]
    ELSE LET toolsToRemove == {n \in DOMAIN tm : tm[n] = id} IN
        [providers |-> Drop(provs, {id}), toolMap |-> Drop(tm, toolsToRemove),
         err |-> NoErr]

\* DefaultRegistry.GetProvider
RegistryGetProvider(provs, id) ==
    IF id \notin DOMAIN provs THEN [prov |-> NilProv, err |-> "not registered"]
    ELSE [prov |-> provs[id], err |-> NoErr]

\* DefaultRegistry.GetTool
RegistryGetTool(provs, tm, name) ==
    IF name \notin DOMAIN tm THEN
        [prov |-> NilProv, err |-> "tool is not registered"]
    ELSE IF tm[name] \notin DOMAIN provs THEN
        [prov |-> NilProv, err |-> "provider is no longer registered"]
    ELSE LET got == GetTools(provs[tm[name]]) IN
         IF got.err THEN [prov |-> NilProv, err |-> "failed to get tools"]
         ELSE IF \E i \in DOMAIN got.tools : got.tools[i] = name THEN
            [prov |-> provs[tm[name]], err |-> NoErr]
         ELSE [prov |-> NilProv, err |-> "tool is no longer provided"]

\* DefaultRegistry.ListTools: the lists of the registered providers whose
\* GetTools succeeds, appended in the order of the map iteration; each
\* element is kept with the provider it came from and its place in that
\* provider's list
RegistryListTools(provs) ==
    UNION {IF GetTools(provs[id]).err THEN {}
           ELSE {[name |-> GetTools(provs[id]).tools[i], from |-> provs[id],
                  i |-> i] : i \in DOMAIN GetTools(provs[id]).tools} :
           id \in DOMAIN provs}

-----------------------------------------------------------------------------
(* internal/usecases: ServerService, and InMemoryToolRepository *)

Prefixed(name) == <<PFX>> \o name
\* len(name) > 7 && name[:7] == "cortex_"
HasPrefix(name) == Len(name) > 1 /\ name[1] = PFX
NilHandler == [kind |-> "nil", name |-> EmptyName, by |-> "nil"]

\* ServerService.RegisterToolHandler
ServiceRegisterToolHandler(th, name, handler) ==
    LET th1 == Put(th, name, handler) IN
    IF Prefixed(name) \in DOMAIN th1 THEN th1
    ELSE Put(th1, Prefixed(name), handler)

\* ServerService.GetToolHandler
ServiceGetToolHandler(th, name) ==
    IF name \in DOMAIN th THEN th[name]
    ELSE IF HasPrefix(name) /\ Tail(name) \in DOMAIN th THEN th[Tail(name)]
    ELSE IF Prefixed(name) \in DOMAIN th THEN th[Prefixed(name)]
    ELSE NilHandler

\* InMemoryToolRepository.AddTool: sync.Map.Store(tool.Name, tool)
RepoAddTool(repo, tool) == Put(repo, tool.name, tool)

\* InMemoryToolRepository.ListTools (the order of Range is unspecified)
RepoListTools(repo) == {repo[k] : k \in DOMAIN repo}

\* the Delete* of the in-memory repositories: an error for a missing key
RepoDelete(repo, key) ==
    IF key \notin DOMAIN repo THEN [repo |-> repo, err |-> "not found"]
    ELSE [repo |-> Drop(repo, {key}), err |-> NoErr]
\* the Add* of the in-memory repositories: sync.Map.Store, never an error
RepoStore(repo, key, value) == [repo |-> Put(repo, key, value), err |-> NoErr]

\* notify*ListChanged: the method of the notification of a collection (the
\* mutant has the prompts announced as resources)
ListChangedMethodCopied(collection) ==
    CASE collection = "tools" -> "tools/list/changed"
      [] collection = "resources" -> "resources/list/changed"
      [] collection = "prompts" -> "resources/list/changed"

ListChangedMethod(collection) ==
    CASE collection = "tools" -> "tools/list/changed"
      [] collection = "resources" -> "resources/list/changed"
      [] collection = "prompts" -> "prompts/list/changed"

\* what the NotificationSender is handed: the notification, and (history)
\* the keys the collection held at that moment
Notification(collection, keys) ==
    [method |-> ListChangedMethod(collection), seen |-> keys]

\* what BroadcastNotification of the injected sender returns
SendOutcomes == {"ok", "send failed"}

\* the error a mutation returns after its deferred notify*ListChanged has
\* run: `_ = s.BroadcastNotification(...)` drops the sender's error (the
\* mutant returns it when the repository reported none)
ReturnedSendError(err, send) ==
    IF err = NoErr /\ send # "ok" THEN send ELSE err

ReturnedAfterNotify(err, send) == err

-----------------------------------------------------------------------------
(* pkg/server/server.go: MCPServer *)

NilDesc == [name |-> << >>, src |-> "nil"]
NilFunc == "nil"
\* a *types.Tool given to AddTool: its name and which descriptor it is
Desc(name, src) == [name |-> name, src |-> src]

\* the serviceAdapter closures: what they capture
DirectAdapter(originalName, handler) ==
    [kind |-> "direct", name |-> originalName, by |-> handler]
ProviderAdapter(originalName, p) ==
    [kind |-> "provider", name |-> originalName, by |-> p]

Server(st, sh, repo, th, err) ==
    [srvTools |-> st, srvHandlers |-> sh, toolRepo |-> repo,
     toolHandlers |-> th, err |-> err]

\* MCPServer.AddTool
MCPServerAddTool(st, sh, repo, th, tool, handler) ==
    IF tool = NilDesc THEN Server(st, sh, repo, th, "tool cannot be nil")
    ELSE IF handler = NilFunc THEN
        Server(st, sh, repo, th, "handler cannot be nil")
    ELSE LET originalName == tool.name IN
        Server(Put(st, originalName, tool), Put(sh, originalName, handler),
               RepoAddTool(repo, tool),
               ServiceRegisterToolHandler(th, originalName,
                                          DirectAdapter(originalName, handler)),
               NoErr)

\* MCPServer.RegisterToolHandler
MCPServerRegisterToolHandler(st, sh, repo, th, name, handler) ==
    IF name \notin DOMAIN st THEN Server(st, sh, repo, th, "tool not found")
    ELSE Server(st, Put(sh, name, handler), repo,
                ServiceRegisterToolHandler(th, name, DirectAdapter(name, handler)),
                NoErr)

\* the loop with adapters that share one variable for the name: each passes
\* on the name of the last tool iterated
RECURSIVE AddProviderToolsLastName(_, _, _, _)
AddProviderToolsLastName(repo, th, tools, p) ==
    IF tools = << >> THEN [toolRepo |-> repo, toolHandlers |-> th]
    ELSE LET originalName == Head(tools) IN
         AddProviderToolsLastName(
            RepoAddTool(repo, Desc(originalName, p)),
            ServiceRegisterToolHandler(th, originalName,
                                       ProviderAdapter(tools[Len(tools)], p)),
            Tail(tools), p)

\* the loop of MCPServer.RegisterProvider over the provider's tools
RECURSIVE AddProviderTools(_, _, _, _)
AddProviderTools(repo, th, tools, p) ==
    IF tools = << >> THEN [toolRepo |-> repo, toolHandlers |-> th]
    ELSE LET originalName == Head(tools) IN
         AddProviderTools(
            RepoAddTool(repo, Desc(originalName, p)),
            ServiceRegisterToolHandler(th, originalName,
                                       ProviderAdapter(originalName, p)),
            Tail(tools), p)

\* MCPServer.RegisterProvider: the registry, the repository, the handlers
MCPServerRegisterProvider(provs, tm, repo, th, p) ==
    LET r == RegistryRegisterProvider(provs, tm, p) IN
    IF r.err # NoErr THEN
        [providers |-> provs, toolMap |-> tm, toolRepo |-> repo,
         toolHandlers |-> th, err |-> "failed to register provider"]
    ELSE LET got == GetTools(p) IN
         IF got.err THEN
            [providers |-> r.providers, toolMap |-> r.toolMap,
             toolRepo |-> repo, toolHandlers |-> th,
             err |-> "failed to get tools from provider"]
         ELSE LET a == AddProviderTools(repo, th, got.tools, p) IN
            [providers |-> r.providers, toolMap |-> r.toolMap,
             toolRepo |-> a.toolRepo, toolHandlers |-> a.toolHandlers,
             err |-> NoErr]

\* MCPServer.UnregisterProvider
MCPServerUnregisterProvider(provs, tm, id) ==
    LET g == RegistryGetProvider(provs, id) IN
    IF g.err # NoErr THEN
        [providers |-> provs, toolMap |-> tm, err |-> "failed to get provider"]
    ELSE IF GetTools(g.prov).err THEN
        [providers |-> provs, toolMap |-> tm,
         err |-> "failed to get tools from provider"]
    ELSE LET r == RegistryUnregisterProvider(provs, tm, id) IN
         IF r.err # NoErr THEN
            [providers |-> provs, toolMap |-> tm,
             err |-> "failed to unregister provider"]
         ELSE r

-----------------------------------------------------------------------------
(* internal/interfaces/stdio: MessageProcessor *)

ParseErrorCode == -32700
InvalidParamsCode == -32602
MethodNotFoundCode == -32601
InternalErrorCode == -32603

\* a method name is a sequence of tokens; "notifications/" is one token
NotificationsPrefix == "notifications/"
IsNotificationMethod(method) == Len(method) >= 1 /\ method[1] = NotificationsPrefix
\* NewMessageProcessor: the standard handlers
StandardMethods == {<<"initialize">>, <<"ping">>, <<"tools/list">>, <<"tools/call">>}

\* an id that is absent or null (a nil interface{})
NoId == "null"

\* what a method or tool handler returns
NilResult == [kind |-> "nil", by |-> "nil", name |-> EmptyName,
              params |-> "nil", tools |-> {}]
EmptyObject == [kind |-> "empty object", by |-> "nil", name |-> EmptyName,
                params |-> "nil", tools |-> {}]
\* the value a tool handler computes from what it was given; marshal = FALSE
\* when encoding/json cannot encode it
HandlerResult(by, name, params, marshal) ==
    [kind |-> IF marshal THEN "value" ELSE "unmarshalable",
     by |-> by, name |-> name, params |-> params, tools |-> {}]
Returned(result, code, message, exec) ==
    [result |-> result, code |-> code, message |-> message, exec |-> exec]
Executed(kind, by, name, params) ==
    [kind |-> kind, by |-> by, name |-> name, params |-> params]

\* what the user's function does when it is called: "ok" (a value), "nil"
\* (a nil value), "bad" (a value json.Marshal rejects), "err" (an error)
Outcomes == {"ok", "nil", "bad", "err"}
Outcome(out, by, name, params) ==
    CASE out = "ok" -> HandlerResult(by, name, params, TRUE)
      [] out = "bad" -> HandlerResult(by, name, params, FALSE)
      [] OTHER -> NilResult

\* the text of the error the user's function returns
UserError == <<"boom">>

\* BaseProvider.ExecuteTool: the Go error (err, text), the ExecuteResponse
\* (resperr for its Error, content) and the executor run
ProviderExecuteTool(p, toolName, params, out) ==
    IF toolName = EmptyName THEN
        [err |-> TRUE, text |-> <<"tool name cannot be empty">>,
         resperr |-> FALSE, content |-> NilResult, exec |-> << >>]
    ELSE IF toolName \notin pexec[p] THEN
        [err |-> TRUE, text |-> <<"tool ">> \o toolName \o <<" not found">>,
         resperr |-> FALSE, content |-> NilResult, exec |-> << >>]
    ELSE
        [err |-> FALSE, text |-> << >>, resperr |-> (out = "err"),
         content |-> IF out = "err" THEN NilResult
                     ELSE Outcome(out, p, toolName, params),
         exec |-> <<Executed("executor", p, toolName, params)>>]

\* what a serviceAdapter returns: (interface{}, error)
Adapted(err, text, result, exec) ==
    [err |-> err, text |-> text, result |-> result, exec |-> exec]

\* serviceAdapter of AddTool / RegisterToolHandler: handler(ctx, request)
InvokeDirect(handler, toolParams, out) ==
    Adapted(out = "err", IF out = "err" THEN UserError ELSE << >>,
            IF out = "err" THEN NilResult
            ELSE Outcome(out, handler.by, handler.name, toolParams),
            <<Executed("handler", handler.by, handler.name, toolParams)>>)

\* serviceAdapter of RegisterProvider after the provider has been found
InvokeProvider(p, name, toolParams, out) ==
    LET e == ProviderExecuteTool(p, name, toolParams, out) IN
    IF e.err THEN
        Adapted(TRUE, <<"failed to execute tool ">> \o name \o <<": ">> \o e.text,
                NilResult, e.exec)
    ELSE IF e.resperr THEN Adapted(TRUE, UserError, NilResult, e.exec)
    ELSE Adapted(FALSE, << >>, e.content, e.exec)

\* the adapter of RegisterProvider running the executor of the provider
\* whose registration created it, without asking the registry
InvokeHandlerOwnProvider(handler, toolParams, out) ==
    IF handler.kind = "direct" THEN InvokeDirect(handler, toolParams, out)
    ELSE InvokeProvider(handler.by, handler.name, toolParams, out)

\* the call handler(ctx, toolParams, clientSession) of handleToolsCall: the
\* serviceAdapter of AddTool / RegisterToolHandler, or that of
\* RegisterProvider
InvokeHandler(handler, toolParams, out) ==
    IF handler.kind = "direct" THEN InvokeDirect(handler, toolParams, out)
    ELSE LET g == RegistryGetTool(providers, toolMap, handler.name) IN
         IF g.err # NoErr THEN
            Adapted(TRUE, <<"failed to get tool ">> \o handler.name
                            \o <<": ", g.err>>,
                    NilResult, << >>)
         ELSE InvokeProvider(g.prov, handler.name, toolParams, out)

\* the params of a tools/call: not an object, or an object whose name is
\* missing, no string, or a string, and whose parameters and arguments
\* fields are absent, no object, or an object
NameMissing == <<"<missing>">>
NameNotString == <<"<no string>">>
NotObject == [object |-> FALSE, name |-> NameMissing,
              parameters |-> "absent", arguments |-> "absent"]
CallParams(name, parameters, arguments) ==
    [object |-> TRUE, name |-> name, parameters |-> parameters,
     arguments |-> arguments]
FieldValues == {"absent", "no object", "P", "A"}
IsObject(v) == v \in {"P", "A"}

\* handleToolsCall's name check: the "name" member is a string and not empty
\* (the mutant lets the empty string through).
ValidNameAllowEmpty(name) == name \notin {NameMissing, NameNotString}

ValidName(name) == name \notin {NameMissing, NameNotString, EmptyName}

\* handleToolsCall's choice of tool parameters: "parameters" when it is an
\* object, else "arguments" when it is an object, else an empty map (the mutant
\* looks at "arguments" first).
ToolParamsArgumentsFirst(params) ==
    IF IsObject(params.arguments) THEN params.arguments
    ELSE IF IsObject(params.parameters) THEN params.parameters
    ELSE "{}"

ToolParams(params) ==
    IF IsObject(params.parameters) THEN params.parameters
    ELSE IF IsObject(params.arguments) THEN params.arguments
    ELSE "{}"

\* MessageProcessor.handleToolsCall
HandleToolsCall(params, out) ==
    IF ~params.object THEN
        Returned(NilResult, InvalidParamsCode, <<"Invalid params">>, << >>)
    ELSE IF ~ValidName(params.name) THEN
        Returned(NilResult, InvalidParamsCode,
                 <<"Missing or invalid 'name' parameter">>, << >>)
    ELSE LET toolName == params.name
             toolParams == ToolParams(params)
             handler == ServiceGetToolHandler(toolHandlers, toolName)
         IN IF handler # NilHandler THEN
                LET r == InvokeHandler(handler, toolParams, out) IN
                IF r.err THEN
                    Returned(NilResult, InternalErrorCode,
                             <<"Error executing tool: ">> \o r.text, r.exec)
                ELSE Returned(r.result, 0, << >>, r.exec)
            ELSE Returned(NilResult, InternalErrorCode,
                          <<"Tool '">> \o toolName
                            \o <<"' is registered but has no implementation">>,
                          << >>)

\* MessageProcessor.handleToolsList
HandleToolsList ==
    Returned([kind |-> "tools", by |-> "nil", name |-> EmptyName,
              params |-> "nil", tools |-> RepoListTools(toolRepo)],
             0, << >>, << >>)

\* MessageProcessor.handleInitialize and handlePing
HandleInitialize ==
    Returned([kind |-> "initialize", by |-> "nil", name |-> EmptyName,
              params |-> "nil", tools |-> {}], 0, << >>, << >>)
HandlePing ==
    Returned([kind |-> "struct{}", by |-> "nil", name |-> EmptyName,
              params |-> "nil", tools |-> {}], 0, << >>, << >>)

\* a MethodHandler given to RegisterHandler by the user
CustomHandler == <<"custom">>
\* what it returns when it is called
HandleCustom(out) ==
    IF out = "err" THEN
        Returned(NilResult, InternalErrorCode, <<"custom failure">>, << >>)
    ELSE Returned(Outcome(out, "custom", EmptyName, "nil"), 0, << >>, << >>)

\* Handle with a processor that serves tools/list and tools/call only once it
\* has been given an initialize request
HandleOnceInitialized(handler, params, out) ==
    IF handler \in {<<"tools/list">>, <<"tools/call">>} /\ ~initSeen THEN
        Returned(NilResult, InternalErrorCode, <<"not initialized">>, << >>)
    ELSE CASE handler = <<"initialize">> -> HandleInitialize
           [] handler = <<"ping">> -> HandlePing
           [] handler = <<"tools/list">> -> HandleToolsList
           [] handler = <<"tools/call">> -> HandleToolsCall(params, out)
           [] OTHER -> HandleCustom(out)

\* handler.Handle(msgCtx, baseMessage.Params, baseMessage.ID), the standard
\* handlers being named by their methods
Handle(handler, params, out) ==
    CASE handler = <<"initialize">> -> HandleInitialize
      [] handler = <<"ping">> -> HandlePing
      [] handler = <<"tools/list">> -> HandleToolsList
      [] handler = <<"tools/call">> -> HandleToolsCall(params, out)
      [] OTHER -> HandleCustom(out)

JSONRPCVersion == "2.0"
NoResponse == [kind |-> "none", jsonrpc |-> "", id |-> NoId, code |-> 0,
               message |-> << >>, result |-> NilResult]
\* a success response that leaves a nil result as it is
CreateSuccessResponseKeepNil(id, result) ==
    [kind |-> "result", jsonrpc |-> JSONRPCVersion, id |-> id, code |-> 0,
     message |-> << >>, result |-> result]
\* an error response that does not echo the id
CreateErrorResponseNullId(id, code, message) ==
    [kind |-> "error", jsonrpc |-> JSONRPCVersion, id |-> NoId, code |-> code,
     message |-> message, result |-> NilResult]
\* createSuccessResponse
CreateSuccessResponse(id, result) ==
    [kind |-> "result", jsonrpc |-> JSONRPCVersion, id |-> id, code |-> 0,
     message |-> << >>,
     result |-> IF result = NilResult THEN EmptyObject ELSE result]
\* createErrorResponse and createErrorResponseFromJSONRPCError
CreateErrorResponse(id, code, message) ==
    [kind |-> "error", jsonrpc |-> JSONRPCVersion, id |-> id, code |-> code,
     message |-> message, result |-> NilResult]

\* an unparsable line answered as if it were an envelope with no method
ParseErrorAsUnknownMethod ==
    CreateErrorResponse(NoId, MethodNotFoundCode, <<"Method '", "' not found">>)

\* an unparsable line passed over in silence
ParseErrorDropped == NoResponse

\* createErrorResponse(nil, ParseErrorCode, "Parse error")
ParseErrorResponse ==
    CreateErrorResponse(NoId, ParseErrorCode, <<"Parse error">>)

Processed(resp, invoked, exec) ==
    [resp |-> resp, err |-> NoErr, invoked |-> invoked, exec |-> exec]

\* a line of input: blank; text that is no JSON; JSON that json.Unmarshal
\* cannot store in the envelope struct; or an envelope
Blank == [kind |-> "blank", id |-> NoId, method |-> << >>, params |-> NotObject]
Malformed == [kind |-> "malformed", id |-> NoId, method |-> << >>,
              params |-> NotObject]
WrongShape == [kind |-> "wrong shape", id |-> NoId, method |-> << >>,
               params |-> NotObject]
Envelope(id, method, params) ==
    [kind |-> "envelope", id |-> id, method |-> method, params |-> params]

\* Process's notification test, made before the handler lookup: no id and a
\* method under "notifications/" (the mutant makes it after the lookup).
IsNotificationUnlessRegistered(line) ==
    /\ line.id = NoId
    /\ IsNotificationMethod(line.method)
    /\ line.method \notin DOMAIN dispatch

IsNotification(line) == line.id = NoId /\ IsNotificationMethod(line.method)

\* MessageProcessor.Process
Process(line, out) ==
    IF line.kind = "blank" THEN Processed(NoResponse, << >>, << >>)
    ELSE IF line.kind # "envelope" THEN
        Processed(ParseErrorResponse, << >>, << >>)
    ELSE IF IsNotification(line) THEN
        Processed(NoResponse, << >>, << >>)
    ELSE IF line.method \notin DOMAIN dispatch
            /\ IsNotificationMethod(line.method) THEN
        Processed(NoResponse, << >>, << >>)
    ELSE IF line.method \notin DOMAIN dispatch THEN
        Processed(CreateErrorResponse(line.id, MethodNotFoundCode,
                    <<"Method '">> \o line.method \o <<"' not found">>),
                  << >>, << >>)
    ELSE LET r == Handle(dispatch[line.method], line.params, out) IN
         IF r.code # 0 THEN
            Processed(CreateErrorResponse(line.id, r.code, r.message),
                      line.method, r.exec)
         ELSE Processed(CreateSuccessResponse(line.id, r.result),
                        line.method, r.exec)

-----------------------------------------------------------------------------
(* Operations on a registry and its providers *)

Ret(op, arg, err) == [op |-> op, arg |-> arg, err |-> err]

\* the call r was a successful RegisterProvider of a provider with this ID
Registers(r, id) ==
    r.op = "RegisterProvider" /\ r.err = NoErr /\ ProvID(r.arg) = id

\* the record of the call keeps (history) the registry as it was before
RegisterProvider(p) ==
    LET r == RegistryRegisterProvider(providers, toolMap, p) IN
    /\ providers' = r.providers
    /\ toolMap' = r.toolMap
    /\ UNCHANGED <<ioVars, procVars, svcVars, conVars>>
    /\ ret' = [op |-> "RegisterProvider", arg |-> p, err |-> r.err,
               before |-> [providers |-> providers, toolMap |-> toolMap]]
    /\ UNCHANGED <<provVars, srvVars, histVars>>

\* the record of the call keeps (history) whether the call before it was
\* the successful registration of this ID, and the names the ID owned
UnregisterProvider(id) ==
    LET r == RegistryUnregisterProvider(providers, toolMap, id) IN
    /\ providers' = r.providers
    /\ toolMap' = r.toolMap
    /\ UNCHANGED <<ioVars, procVars, svcVars, conVars>>
    /\ ret' = [op |-> "UnregisterProvider", arg |-> id, err |-> r.err,
               undoes |-> Registers(ret, id),
               removed |-> {n \in DOMAIN toolMap : toolMap[n] = id}]
    /\ UNCHANGED <<provVars, srvVars, histVars>>

GetTool(name) ==
    LET r == RegistryGetTool(providers, toolMap, name) IN
    /\ UNCHANGED <<ioVars, procVars, svcVars, conVars>>
    /\ ret' = [op |-> "GetTool", arg |-> name, err |-> r.err, prov |-> r.prov]
    /\ UNCHANGED <<regVars, provVars, srvVars, histVars>>

ListTools ==
    /\ UNCHANGED <<ioVars, procVars, svcVars, conVars>>
    /\ ret' = [op |-> "ListTools", arg |-> NilProv, err |-> NoErr,
               tools |-> RegistryListTools(providers)]
    /\ UNCHANGED <<regVars, provVars, srvVars, histVars>>

BaseRegisterTool(p, tool, hasExecutor) ==
    LET r == BaseRegisterToolResult(ptools[p], pexec[p], tool, hasExecutor) IN
    /\ ptools' = [ptools EXCEPT ![p] = r.tools]
    /\ pexec' = [pexec EXCEPT ![p] = r.execs]
    /\ UNCHANGED <<ioVars, procVars, svcVars, conVars>>
    /\ ret' = [op |-> "RegisterTool", arg |-> <<p, tool>>, err |-> r.err,
               executor |-> hasExecutor]
    /\ UNCHANGED <<regVars, failing, srvVars, histVars>>

BaseUnregisterTool(p, name) ==
    LET r == BaseUnregisterToolResult(ptools[p], pexec[p], name) IN
    /\ ptools' = [ptools EXCEPT ![p] = r.tools]
    /\ pexec' = [pexec EXCEPT ![p] = r.execs]
    /\ UNCHANGED <<ioVars, procVars, svcVars, conVars>>
    /\ ret' = Ret("UnregisterTool", <<p, name>>, r.err)
    /\ UNCHANGED <<regVars, failing, srvVars, histVars>>

\* a provider other than a BaseProvider starts or stops failing GetTools
SetFailing(p, b) ==
    /\ failing[p] # b
    /\ failing' = [failing EXCEPT ![p] = b]
    /\ UNCHANGED <<ioVars, procVars, svcVars, conVars>>
    /\ ret' = Ret("SetFailing", p, NoErr)
    /\ UNCHANGED <<regVars, ptools, pexec, srvVars, histVars>>

\* MCPServer.UnregisterProvider
SrvUnregisterProvider(id) ==
    LET r == MCPServerUnregisterProvider(providers, toolMap, id) IN
    /\ providers' = r.providers
    /\ toolMap' = r.toolMap
    /\ everUnreg' = (everUnreg \/ r.err = NoErr)
    /\ regLog' = IF r.err = NoErr
                 THEN SelectSeq(regLog, LAMBDA e : e.id # id) ELSE regLog
    /\ UNCHANGED <<ioVars, procVars, svcVars, conVars>>
    /\ ret' = Ret("MCPServer.UnregisterProvider", id, r.err)
    /\ UNCHANGED <<provVars, srvVars>>

\* MCPServer.AddTool
SrvAddTool(tool, handler) ==
    LET r == MCPServerAddTool(srvTools, srvHandlers, toolRepo, toolHandlers,
                              tool, handler) IN
    /\ srvTools' = r.srvTools
    /\ srvHandlers' = r.srvHandlers
    /\ toolRepo' = r.toolRepo
    /\ toolHandlers' = r.toolHandlers
    /\ registered' = IF r.err = NoErr THEN registered \cup {tool.name}
                     ELSE registered
    /\ UNCHANGED <<ioVars, procVars, svcVars, conVars>>
    /\ ret' = Ret("AddTool", <<tool, handler>>, r.err)
    /\ UNCHANGED <<regVars, provVars, histVars>>

\* MCPServer.RegisterToolHandler
SrvRegisterToolHandler(name, handler) ==
    LET r == MCPServerRegisterToolHandler(srvTools, srvHandlers, toolRepo,
                                          toolHandlers, name, handler) IN
    /\ srvTools' = r.srvTools
    /\ srvHandlers' = r.srvHandlers
    /\ toolRepo' = r.toolRepo
    /\ toolHandlers' = r.toolHandlers
    /\ registered' = IF r.err = NoErr THEN registered \cup {name}
                     ELSE registered
    /\ UNCHANGED <<ioVars, procVars, svcVars, conVars>>
    /\ ret' = Ret("RegisterToolHandler", <<name, handler>>, r.err)
    /\ UNCHANGED <<regVars, provVars, histVars>>

\* ServerService.GetToolHandler
GetToolHandler(name) ==
    /\ UNCHANGED <<ioVars, procVars, svcVars, conVars>>
    /\ ret' = [op |-> "GetToolHandler", arg |-> name, err |-> NoErr,
               handler |-> ServiceGetToolHandler(toolHandlers, name)]
    /\ UNCHANGED <<regVars, provVars, srvVars, histVars>>

\* MCPServer.RegisterProvider
SrvRegisterProvider(p) ==
    LET r == MCPServerRegisterProvider(providers, toolMap, toolRepo,
                                       toolHandlers, p)
        listed == IF GetTools(p).err THEN {} ELSE Range(GetTools(p).tools)
    IN
    /\ providers' = r.providers
    /\ toolMap' = r.toolMap
    /\ toolRepo' = r.toolRepo
    /\ toolHandlers' = r.toolHandlers
    /\ registered' = IF r.err = NoErr THEN registered \cup listed
                     ELSE registered
    /\ regLog' = IF r.providers # providers
                 THEN Append(regLog, [prov |-> p, id |-> ProvID(p),
                                      listed |-> listed])
                 ELSE regLog
    /\ UNCHANGED <<ioVars, procVars, svcVars, conVars>>
    /\ ret' = Ret("MCPServer.RegisterProvider", p, r.err)
    /\ UNCHANGED <<provVars, srvTools, srvHandlers, everUnreg>>

\* ServerService.AddTool, DeleteTool, AddResource, DeleteResource, AddPrompt
\* and DeletePrompt: the repository operation, then the deferred
\* notify*ListChanged, then the return of the repository's error
ServiceMutation(op, collection, key, value, r, send) ==
    /\ Len(sent) < MaxSent
    /\ sent' = Append(sent, Notification(collection, DOMAIN r.repo))
    /\ ret' = [op |-> op, arg |-> key, value |-> value,
               err |-> ReturnedAfterNotify(r.err, send), send |-> send]
    /\ UNCHANGED <<regVars, provVars, histVars, ioVars, procVars, conVars,
                   srvTools, srvHandlers, toolHandlers, registered>>

SvcAddTool(tool, send) ==
    LET r == [repo |-> RepoAddTool(toolRepo, tool), err |-> NoErr] IN
    /\ toolRepo' = r.repo
    /\ UNCHANGED <<resourceRepo, promptRepo>>
    /\ ServiceMutation("Service.AddTool", "tools", tool.name, tool, r, send)

SvcDeleteTool(name, send) ==
    LET r == RepoDelete(toolRepo, name) IN
    /\ toolRepo' = r.repo
    /\ UNCHANGED <<resourceRepo, promptRepo>>
    /\ ServiceMutation("Service.DeleteTool", "tools", name, NilDesc, r, send)

SvcAddResource(uri, value, send) ==
    LET r == RepoStore(resourceRepo, uri, value) IN
    /\ resourceRepo' = r.repo
    /\ UNCHANGED <<toolRepo, promptRepo>>
    /\ ServiceMutation("Service.AddResource", "resources", uri, value, r,
                       send)

SvcDeleteResource(uri, send) ==
    LET r == RepoDelete(resourceRepo, uri) IN
    /\ resourceRepo' = r.repo
    /\ UNCHANGED <<toolRepo, promptRepo>>
    /\ ServiceMutation("Service.DeleteResource", "resources", uri, "nil", r,
                       send)

SvcAddPrompt(name, value, send) ==
    LET r == RepoStore(promptRepo, name, value) IN
    /\ promptRepo' = r.repo
    /\ UNCHANGED <<toolRepo, resourceRepo>>
    /\ ServiceMutation("Service.AddPrompt", "prompts", name, value, r, send)

SvcDeletePrompt(name, send) ==
    LET r == RepoDelete(promptRepo, name) IN
    /\ promptRepo' = r.repo
    /\ UNCHANGED <<toolRepo, resourceRepo>>
    /\ ServiceMutation("Service.DeletePrompt", "prompts", name, "nil", r, send)

\* MessageProcessor.RegisterHandler
RegisterHandler(method, handler) ==
    /\ dispatch' = Put(dispatch, method, handler)
    /\ ret' = Ret("RegisterHandler", method, NoErr)
    /\ UNCHANGED initSeen
    /\ UNCHANGED <<regVars, provVars, srvVars, histVars, ioVars, svcVars,
                   conVars>>

\* the line is an initialize request
IsInitialize(line) == line.kind = "envelope" /\ line.method = <<"initialize">>

\* a line handed to MessageProcessor.Process, the user's function behaving
\* as out says
Call(line, out) ==
    LET r == Process(line, out) IN
    /\ initSeen' = (initSeen \/ IsInitialize(line))
    /\ UNCHANGED <<ioVars, dispatch, svcVars, conVars>>
    /\ ret' = [op |-> "Process", arg |-> line, out |-> out, err |-> r.err,
               resp |-> r.resp, invoked |-> r.invoked, exec |-> r.exec]
    /\ UNCHANGED <<regVars, provVars, srvVars, histVars>>

-----------------------------------------------------------------------------
(* internal/interfaces/stdio: StdioServer.Listen *)

\* the tool handler that handleToolsCall finds for a line, if it looks for one
Resolves(line) ==
    /\ line.kind = "envelope"
    /\ line.method = <<"tools/call">>
    /\ line.method \in DOMAIN dispatch
    /\ dispatch[line.method] = <<"tools/call">>
    /\ line.params.object
    /\ line.params.name \notin {NameMissing, NameNotString, EmptyName}
    /\ ServiceGetToolHandler(toolHandlers, line.params.name) # NilHandler

Current(n, line) ==
    [n |-> n, line |-> line, resp |-> NoResponse, resolved |-> FALSE,
     werr |-> "none", heeds |-> FALSE, expired |-> FALSE]
\* a response on the output: the number of the line it answers and what it
\* carries
Written(n, resp) ==
    [req |-> n, id |-> resp.id, kind |-> resp.kind, code |-> resp.code]

\* isTerminalError
IsTerminalError(err) == err = "broken pipe"
\* what writeResponse returns: json.Marshal may fail, Write may fail
WriteErrors == {"nil", "write error", "broken pipe"}
WriteResponse(resp, w) ==
    IF resp.result.kind = "unmarshalable" THEN "error marshaling response"
    ELSE w

\* the select at the top of the loop
ListenSelect ==
    /\ lpc = "select"
    /\ IF ctxDone
       THEN lpc' = "done" /\ listenRet' = "context canceled"
       ELSE lpc' = "read" /\ listenRet' = listenRet
    /\ ret' = Ret("Listen.select", NilProv, NoErr)
    /\ UNCHANGED <<regVars, provVars, srvVars, histVars, procVars, svcVars, conVars,
                   cur, stdout, nread, ctxDone, stdinClosed>>

\* reader.ReadString returns a line the client has sent
ListenReadLine(line) ==
    /\ lpc = "read"
    /\ ~stdinClosed
    /\ nread < MaxLines
    /\ nread' = nread + 1
    /\ cur' = Current(nread + 1, line)
    /\ lpc' = "process"
    /\ ret' = Ret("Listen.read", NilProv, NoErr)
    /\ UNCHANGED <<regVars, provVars, srvVars, histVars, procVars, svcVars, conVars,
                   stdout, ctxDone, listenRet, stdinClosed>>

\* reader.ReadString returns io.EOF, the input being closed, or another
\* error, together with the bytes it read before the error: none, or a last
\* line that has no newline; Listen looks at the error only
ListenReadError(err, rest) ==
    /\ lpc = "read"
    /\ err = "EOF" => stdinClosed
    /\ lpc' = "done"
    /\ listenRet' = IF err = "EOF" THEN "nil" ELSE err
    /\ ret' = [op |-> "Listen.read", arg |-> NilProv, err |-> err,
               rest |-> rest]
    /\ UNCHANGED <<regVars, provVars, srvVars, histVars, procVars, svcVars, conVars,
                   cur, stdout, nread, ctxDone, stdinClosed>>

\* what Listen does with the values Process returned; processErr is always nil
ListenProcessed(r) ==
    /\ cur' = [cur EXCEPT !.resp = r.resp, !.resolved = Resolves(cur.line)]
    /\ lpc' = IF r.resp = NoResponse THEN "select" ELSE "write"
    /\ ret' = [op |-> "Process", arg |-> cur.line, err |-> r.err,
               resp |-> r.resp, invoked |-> r.invoked, exec |-> r.exec]
    /\ initSeen' = (initSeen \/ IsInitialize(cur.line))
    /\ UNCHANGED <<regVars, provVars, srvVars, histVars, dispatch, svcVars, conVars,
                   stdout, nread, ctxDone, listenRet, stdinClosed>>

\* s.processor.Process(ctx, line) with a user function that returns at once
ListenProcess(out) ==
    /\ lpc = "process"
    /\ ListenProcessed(Process(cur.line, out))

\* s.processor.Process(ctx, line) reaches handler(ctx, toolParams,
\* clientSession) and the user's function does not return yet; heeds says
\* whether that function watches ctx.Done()
ListenProcessBlocks(heeds) ==
    /\ lpc = "process"
    /\ Resolves(cur.line)
    /\ lpc' = "handler"
    /\ cur' = [cur EXCEPT !.resolved = TRUE, !.heeds = heeds]
    /\ ret' = Ret("Process.handler", NilProv, NoErr)
    /\ UNCHANGED <<regVars, provVars, srvVars, histVars, procVars, svcVars, conVars,
                   stdout, nread, ctxDone, listenRet, stdinClosed>>

\* the 30 seconds of context.WithTimeout(ctx, 30*time.Second) are over
DeadlineExceeded ==
    /\ lpc = "handler"
    /\ ~cur.expired
    /\ cur' = [cur EXCEPT !.expired = TRUE]
    /\ ret' = Ret("deadline", NilProv, NoErr)
    /\ UNCHANGED <<regVars, provVars, srvVars, histVars, procVars, svcVars, conVars,
                   lpc, stdout, nread, ctxDone, listenRet, stdinClosed>>

\* a user function that watches ctx.Done() returns ctx.Err() once msgCtx is
\* done, by its deadline or by the cancellation of its parent
HandlerHeedsDeadline ==
    /\ lpc = "handler"
    /\ cur.heeds
    /\ cur.expired \/ ctxDone
    /\ ListenProcessed(Process(cur.line, "err"))

\* the blocked user function returns of its own accord
HandlerReturns(out) ==
    /\ lpc = "handler"
    /\ ListenProcessed(Process(cur.line, out))

\* s.writeResponse(response, stdout) and what Listen does with its error
ListenWrite(w) ==
    LET err == WriteResponse(cur.resp, w) IN
    /\ lpc = "write"
    /\ cur' = [cur EXCEPT !.werr = err]
    /\ stdout' = IF err = "nil" THEN Append(stdout, Written(cur.n, cur.resp))
                 ELSE stdout
    /\ IF IsTerminalError(err)
       THEN lpc' = "done" /\ listenRet' = err
       ELSE lpc' = "select" /\ listenRet' = listenRet
    /\ ret' = Ret("Listen.write", NilProv, err)
    /\ UNCHANGED <<regVars, provVars, srvVars, histVars, procVars, svcVars, conVars,
                   nread, ctxDone, stdinClosed>>

\* the caller cancels the context (ServeStdio: a shutdown signal)
Cancel ==
    /\ ~ctxDone
    /\ ctxDone' = TRUE
    /\ ret' = Ret("cancel", NilProv, NoErr)
    /\ UNCHANGED <<regVars, provVars, srvVars, histVars, procVars, svcVars, conVars,
                   lpc, cur, stdout, nread, listenRet, stdinClosed>>

\* the client closes the input
CloseInput ==
    /\ ~stdinClosed
    /\ stdinClosed' = TRUE
    /\ ret' = Ret("close", NilProv, NoErr)
    /\ UNCHANGED <<regVars, provVars, srvVars, histVars, procVars, svcVars, conVars,
                   lpc, cur, stdout, nread, ctxDone, listenRet>>

-----------------------------------------------------------------------------
(* Goroutines calling into one DefaultRegistry and one ServerService *)

\* a goroutine that is in no call
Idle == [pc |-> "idle", op |-> "none", prov |-> NilProv, name |-> EmptyName,
         todo |-> << >>]
\* the Go runtime has stopped the process
Crashed == [Idle EXCEPT !.pc = "crashed"]

\* sync.RWMutex: Lock waits for the writer and the readers to leave, RLock
\* for the writer (the mutant lets a reader in beside the writer)
\* a Lock that does not wait
CanLockAlways(m) == TRUE

CanLock(m) == m.writer = NoWorker /\ m.readers = {}
CanRLockAlways(m) == TRUE

CanRLock(m) == m.writer = NoWorker
Lock(m, w) == [m EXCEPT !.writer = w]
Unlock(m, w) == [m EXCEPT !.writer = NoWorker]
RLock(m, w) == [m EXCEPT !.readers = @ \cup {w}]
\* a lookup that returns without its deferred RUnlock
RUnlockForgotten(m, w) == m

RUnlock(m, w) == [m EXCEPT !.readers = @ \ {w}]

\* the orders in which `for toolName, id := range r.toolMap` may visit names
Orders(S) == {sq \in [1..Cardinality(S) -> S] : Range(sq) = S}

\* where a call starts
FirstPc(op) ==
    CASE op = "RegisterProvider" -> "reg.lock"
      [] op = "UnregisterProvider" -> "unreg.lock"
      [] op = "GetTool" -> "gt.rlock"
      [] op = "GetProvider" -> "gp.rlock"
      [] op = "Call" -> "call.rlock"
      [] op = "RegisterToolHandler" -> "rth.write"
\* the places where a goroutine is changing the registry under mu.Lock
WriterSections ==
    {"reg.check", "reg.insert", "reg.tools", "unreg.check", "unreg.tools"}
\* the places where a goroutine is assigning to ServerService.toolHandlers
MapWrites == {"rth.write", "rth.write2"}

Stepped(w) == Ret("step", w, NoErr)
Returned2(w, op, arg, err) == [op |-> op, by |-> w, arg |-> arg, err |-> err]
ConFrame == UNCHANGED <<provVars, histVars, ioVars, procVars, svcVars>>

\* a goroutine enters RegisterProvider (with a provider that passes the
\* checks made before the lock), UnregisterProvider, GetTool, GetProvider,
\* the serviceAdapter of a provider's tool, or RegisterToolHandler
ConBegin(w, op, p, name) ==
    /\ wk[w].pc = "idle"
    /\ wk' = [wk EXCEPT ![w] = [pc |-> FirstPc(op), op |-> op, prov |-> p,
                                 name |-> name, todo |-> << >>]]
    /\ ret' = Stepped(w)
    /\ ConFrame /\ UNCHANGED <<regVars, srvVars, mu>>

\* r.mu.Lock() of RegisterProvider and UnregisterProvider
ConLock(w) ==
    /\ wk[w].pc \in {"reg.lock", "unreg.lock"}
    /\ CanLock(mu)
    /\ mu' = Lock(mu, w)
    /\ wk' = [wk EXCEPT ![w].pc = IF wk[w].pc = "reg.lock" THEN "reg.check"
                                  ELSE "unreg.check"]
    /\ ret' = Stepped(w)
    /\ ConFrame /\ UNCHANGED <<regVars, srvVars>>

\* r.mu.RLock() of GetTool and GetProvider
ConRLock(w) ==
    /\ wk[w].pc \in {"gt.rlock", "gp.rlock", "call.rlock"}
    /\ CanRLock(mu)
    /\ mu' = RLock(mu, w)
    /\ wk' = [wk EXCEPT ![w].pc = CASE wk[w].pc = "gt.rlock" -> "gt.read"
                                    [] wk[w].pc = "gp.rlock" -> "gp.read"
                                    [] OTHER -> "call.read"]
    /\ ret' = Stepped(w)
    /\ ConFrame /\ UNCHANGED <<regVars, srvVars>>

\* RegisterProvider: the check for the ID
ConRegCheck(w) ==
    LET p == wk[w].prov IN
    /\ wk[w].pc = "reg.check"
    /\ IF ProvID(p) \in DOMAIN providers THEN
          /\ mu' = Unlock(mu, w)
          /\ wk' = [wk EXCEPT ![w] = Idle]
          /\ ret' = Returned2(w, "Registry.RegisterProvider", p,
                              "already registered")
       ELSE
          /\ wk' = [wk EXCEPT ![w].pc = "reg.insert"]
          /\ ret' = Stepped(w)
          /\ UNCHANGED mu
    /\ ConFrame /\ UNCHANGED <<regVars, srvVars>>

\* RegisterProvider: r.providers[info.ID] = provider, provider.GetTools
ConRegInsert(w) ==
    LET p == wk[w].prov
        got == GetTools(p)
    IN
    /\ wk[w].pc = "reg.insert"
    /\ providers' = Put(providers, ProvID(p), p)
    /\ IF got.err THEN
          /\ mu' = Unlock(mu, w)
          /\ wk' = [wk EXCEPT ![w] = Idle]
          /\ ret' = Returned2(w, "Registry.RegisterProvider", p, NoErr)
       ELSE
          /\ wk' = [wk EXCEPT ![w].pc = "reg.tools", ![w].todo = got.tools]
          /\ ret' = Stepped(w)
          /\ UNCHANGED mu
    /\ ConFrame /\ UNCHANGED <<toolMap, srvVars>>

\* RegisterProvider: one turn of the loop over the tools, or its end
ConRegTool(w) ==
    LET p == wk[w].prov
        todo == wk[w].todo
    IN
    /\ wk[w].pc = "reg.tools"
    /\ IF todo = << >> THEN
          /\ mu' = Unlock(mu, w)
          /\ wk' = [wk EXCEPT ![w] = Idle]
          /\ ret' = Returned2(w, "Registry.RegisterProvider", p, NoErr)
          /\ UNCHANGED regVars
       ELSE
          /\ toolMap' = IF Head(todo) = EmptyName \/ Head(todo) \in DOMAIN toolMap
                        THEN toolMap
                        ELSE Put(toolMap, Head(todo), ProvID(p))
          /\ wk' = [wk EXCEPT ![w].todo = Tail(todo)]
          /\ ret' = Stepped(w)
          /\ UNCHANGED <<providers, mu>>
    /\ ConFrame /\ UNCHANGED srvVars

\* UnregisterProvider: the check for the ID and the collection of
\* toolsToRemove
ConUnregCheck(w) ==
    LET id == wk[w].prov IN
    /\ wk[w].pc = "unreg.check"
    /\ IF id \notin DOMAIN providers THEN
          /\ mu' = Unlock(mu, w)
          /\ wk' = [wk EXCEPT ![w] = Idle]
          /\ ret' = Returned2(w, "Registry.UnregisterProvider", id,
                              "not registered")
       ELSE
          /\ \E sq \in Orders({n \in DOMAIN toolMap : toolMap[n] = id}) :
                wk' = [wk EXCEPT ![w].pc = "unreg.tools", ![w].todo = sq]
          /\ ret' = Stepped(w)
          /\ UNCHANGED mu
    /\ ConFrame /\ UNCHANGED <<regVars, srvVars>>

\* UnregisterProvider: one delete(r.toolMap, toolName), or, after the last,
\* delete(r.providers, providerID) and the return
ConUnregTool(w) ==
    LET id == wk[w].prov
        todo == wk[w].todo
    IN
    /\ wk[w].pc = "unreg.tools"
    /\ IF todo = << >> THEN
          /\ providers' = Drop(providers, {id})
          /\ mu' = Unlock(mu, w)
          /\ wk' = [wk EXCEPT ![w] = Idle]
          /\ ret' = Returned2(w, "Registry.UnregisterProvider", id, NoErr)
          /\ UNCHANGED toolMap
       ELSE
          /\ toolMap' = Drop(toolMap, {Head(todo)})
          /\ wk' = [wk EXCEPT ![w].todo = Tail(todo)]
          /\ ret' = Stepped(w)
          /\ UNCHANGED <<providers, mu>>
    /\ ConFrame /\ UNCHANGED srvVars

\* GetTool between its RLock and its return: the reads of r.toolMap and
\* r.providers, provider.GetTools, the deferred RUnlock
ConGetTool(w) ==
    LET r == RegistryGetTool(providers, toolMap, wk[w].name) IN
    /\ wk[w].pc = "gt.read"
    /\ mu' = RUnlock(mu, w)
    /\ wk' = [wk EXCEPT ![w] = Idle]
    /\ ret' = [op |-> "Registry.GetTool", by |-> w, arg |-> wk[w].name,
               err |-> r.err, prov |-> r.prov]
    /\ ConFrame /\ UNCHANGED <<regVars, srvVars>>

\* GetProvider between its RLock and its return
ConGetProvider(w) ==
    LET r == RegistryGetProvider(providers, wk[w].prov) IN
    /\ wk[w].pc = "gp.read"
    /\ mu' = RUnlock(mu, w)
    /\ wk' = [wk EXCEPT ![w] = Idle]
    /\ ret' = [op |-> "Registry.GetProvider", by |-> w, arg |-> wk[w].prov,
               err |-> r.err, prov |-> r.prov]
    /\ ConFrame /\ UNCHANGED <<regVars, srvVars>>

\* the serviceAdapter of a provider's tool: s.registry.GetTool returns; on
\* an error the adapter returns it, else it goes on to provider.ExecuteTool
ConCallGetTool(w) ==
    LET r == RegistryGetTool(providers, toolMap, wk[w].name) IN
    /\ wk[w].pc = "call.read"
    /\ mu' = RUnlock(mu, w)
    /\ wk' = IF r.err # NoErr THEN [wk EXCEPT ![w] = Idle]
             ELSE [wk EXCEPT ![w].pc = "call.found", ![w].prov = r.prov]
    /\ ret' = [op |-> "Registry.GetTool", by |-> w, arg |-> wk[w].name,
               err |-> r.err, prov |-> r.prov]
    /\ ConFrame /\ UNCHANGED <<regVars, srvVars>>

\* the serviceAdapter calls provider.ExecuteTool, which looks for the
\* executor of the name and starts it
ConExecute(w) ==
    LET p == wk[w].prov
        found == wk[w].name \in pexec[p]
    IN
    /\ wk[w].pc = "call.found"
    /\ wk' = IF found THEN [wk EXCEPT ![w].pc = "exec"]
             ELSE [wk EXCEPT ![w] = Idle]
    /\ ret' = [op |-> "ExecuteTool.start", by |-> w, arg |-> wk[w].name,
               err |-> IF found THEN NoErr ELSE "tool not found", prov |-> p]
    /\ ConFrame /\ UNCHANGED <<regVars, srvVars, mu>>

\* provider.ExecuteTool returns, after however long the executor took
ConExecuted(w) ==
    /\ wk[w].pc = "exec"
    /\ wk' = [wk EXCEPT ![w] = Idle]
    /\ ret' = [op |-> "ExecuteTool", by |-> w, arg |-> wk[w].name,
               err |-> NoErr, prov |-> wk[w].prov]
    /\ ConFrame /\ UNCHANGED <<regVars, srvVars, mu>>

\* RegisterToolHandler: s.toolHandlers[name] = handler is done
ConRthWrite(w) ==
    /\ wk[w].pc = "rth.write"
    /\ toolHandlers' = Put(toolHandlers, wk[w].name,
                           DirectAdapter(wk[w].name, wk[w].prov))
    /\ registered' = registered \cup {wk[w].name}
    /\ wk' = [wk EXCEPT ![w].pc = "rth.check"]
    /\ ret' = Stepped(w)
    /\ ConFrame /\ UNCHANGED <<regVars, srvTools, srvHandlers, toolRepo, mu>>

\* RegisterToolHandler: the look at s.toolHandlers[prefixedName]
ConRthCheck(w) ==
    /\ wk[w].pc = "rth.check"
    /\ IF Prefixed(wk[w].name) \in DOMAIN toolHandlers
       THEN /\ wk' = [wk EXCEPT ![w] = Idle]
            /\ ret' = Returned2(w, "Service.RegisterToolHandler", wk[w].name,
                                NoErr)
       ELSE /\ wk' = [wk EXCEPT ![w].pc = "rth.write2"]
            /\ ret' = Stepped(w)
    /\ ConFrame /\ UNCHANGED <<regVars, srvVars, mu>>

\* RegisterToolHandler: s.toolHandlers[prefixedName] = handler is done
ConRthWrite2(w) ==
    /\ wk[w].pc = "rth.write2"
    /\ toolHandlers' = Put(toolHandlers, Prefixed(wk[w].name),
                           DirectAdapter(wk[w].name, wk[w].prov))
    /\ wk' = [wk EXCEPT ![w] = Idle]
    /\ ret' = Returned2(w, "Service.RegisterToolHandler", wk[w].name, NoErr)
    /\ ConFrame
    /\ UNCHANGED <<regVars, srvTools, srvHandlers, toolRepo, registered, mu>>

\* what a read of a Go map finds while another goroutine assigns to it: the
\* map as it was, as it will be, nothing, or the runtime's "fatal error:
\* concurrent map read and map write"
RacedOutcomes == {"before", "after", "nothing", "fatal"}
\* the map once the assignments in progress are done
AfterWrites(th, others) ==
    LET v == CHOOSE v \in others : wk[v].pc \in MapWrites IN
    Put(th, IF wk[v].pc = "rth.write" THEN wk[v].name ELSE Prefixed(wk[v].name),
        DirectAdapter(wk[v].name, wk[v].prov))

\* handleToolsCall: service.GetToolHandler(toolName), which takes no lock
ConGetToolHandler(w, name, outcome) ==
    LET others == Workers \ {w}
        raced == \E v \in others : wk[v].pc \in MapWrites
        found == CASE ~raced \/ outcome = "before"
                        -> ServiceGetToolHandler(toolHandlers, name)
                   [] outcome = "after"
                        -> ServiceGetToolHandler(AfterWrites(toolHandlers, others),
                                                 name)
                   [] OTHER -> NilHandler
    IN
    /\ wk[w].pc = "idle"
    /\ ~raced => outcome = "before"
    /\ wk' = IF outcome = "fatal" THEN [v \in Workers |-> Crashed] ELSE wk
    /\ ret' = [op |-> "Service.GetToolHandler", by |-> w, arg |-> name,
               err |-> IF outcome = "fatal"
                       THEN "fatal error: concurrent map read and map write"
                       ELSE NoErr,
               handler |-> found, raced |-> raced]
    /\ ConFrame /\ UNCHANGED <<regVars, srvVars, mu>>

InitProviders ==
    /\ ptools = [p \in Provs |-> IF p \in CustomProvs THEN CustomTools ELSE << >>]
    /\ pexec = [p \in Provs |-> IF p \in CustomProvs THEN Range(CustomTools) ELSE {}]
    /\ failing = [p \in Provs |-> FALSE]

\* NewRegistry
InitRegistry ==
    /\ providers = EmptyMap
    /\ toolMap = EmptyMap

\* NewMCPServer, NewServerBuilder, NewServerService
InitServer ==
    /\ srvTools = EmptyMap
    /\ srvHandlers = EmptyMap
    /\ toolRepo = EmptyMap
    /\ toolHandlers = EmptyMap
    /\ registered = {}

InitHistory ==
    /\ regLog = << >>
    /\ everUnreg = FALSE

\* Listen has been called and has read nothing yet
InitListen ==
    /\ lpc = "select"
    /\ cur = Current(0, Blank)
    /\ stdout = << >>
    /\ nread = 0
    /\ ctxDone = FALSE
    /\ listenRet = "running"
    /\ stdinClosed = FALSE

\* NewMessageProcessor
InitProcessor ==
    /\ dispatch = [m \in StandardMethods |-> m]
    /\ initSeen = FALSE

\* NewServerBuilder: empty repositories; nothing handed to the sender yet
InitService ==
    /\ resourceRepo = EmptyMap
    /\ promptRepo = EmptyMap
    /\ sent = << >>

\* NewRegistry: the zero sync.RWMutex; no goroutine is in a call
InitWorkers ==
    /\ mu = [writer |-> NoWorker, readers |-> {}]
    /\ wk = [w \in Workers |-> Idle]

Init ==
    /\ InitProviders
    /\ InitRegistry
    /\ InitServer
    /\ InitHistory
    /\ InitListen
    /\ InitProcessor
    /\ InitService
    /\ InitWorkers
    /\ ret = Ret("new", NilProv, NoErr)

\* a DefaultRegistry with its providers, used on its own
NextRegistry ==
    \/ \E p \in Provs \cup {NilProv} : RegisterProvider(p)
    \/ \E id \in IDs : UnregisterProvider(id)
    \/ \E id \in IDs : SrvUnregisterProvider(id)
    \/ \E n \in BaseNames : GetTool(n)
    \/ \E p \in BaseProvs, t \in BaseNames \cup {EmptyName, NilTool},
          e \in BOOLEAN : BaseRegisterTool(p, t, e)
    \/ \E p \in BaseProvs, n \in BaseNames : BaseUnregisterTool(p, n)
    \/ \E p \in CustomProvs, b \in BOOLEAN : SetFailing(p, b)

SpecRegistry == Init /\ [][NextRegistry]_vars

\* the inputs of the direct registration path
DirectNames == {<<"x">>, Prefixed(<<"x">>)}
Descs == {Desc(n, d) : n \in DirectNames, d \in {"d1", "d2"}}
Funcs == {"h1", "h2"}
ToolsCall(id, name) == Envelope(id, <<"tools/call">>, CallParams(name, "P", "absent"))

\* an MCPServer whose tools are all registered directly
NextHandlers ==
    \/ \E t \in Descs \cup {NilDesc}, h \in Funcs \cup {NilFunc} : SrvAddTool(t, h)
    \/ \E n \in DirectNames \cup {<<"y">>}, h \in Funcs :
          SrvRegisterToolHandler(n, h)
    \/ \E n \in DirectNames \cup {<<"y">>, Prefixed(Prefixed(<<"x">>))} :
          GetToolHandler(n)
    \/ \E n \in DirectNames, out \in Outcomes : Call(ToolsCall("1", n), out)

SpecHandlers == Init /\ [][NextHandlers]_vars

\* C28: BaseProvider.RegisterTool with a name the provider already holds,
\* with a nil tool, with a nil executor or with the empty name returns an
\* error and leaves the provider's tool list and executor map as they were.
C28_RegisterToolRejects ==
    [][(/\ ret'.op = "RegisterTool"
        /\ \/ ret'.arg[2] \in Range(ptools[ret'.arg[1]])
           \/ ret'.arg[2] \in {NilTool, EmptyName}
           \/ ~ret'.executor)
       => /\ ret'.err # NoErr
          /\ ptools' = ptools /\ pexec' = pexec]_vars

\* a provider that holds x was asked to register x again, with an executor
C28_Witness ==
    /\ ret.op = "RegisterTool"
    /\ ret.arg = <<"pa", <<"x">>>> /\ ret.executor
    /\ ret.err = "already registered"
    /\ ptools["pa"] = <<<<"x">>>> /\ pexec["pa"] = {<<"x">>}

-----------------------------------------------------------------------------
(* Properties of the registry (SpecRegistry) *)

\* C2: RegisterProvider with a provider whose ID is already registered
\* returns the already-registered error and leaves the provider map and the
\* tool index as they were.
C2_DuplicateProviderRejected ==
    [][\A p \in Provs :
        (/\ ret'.op = "RegisterProvider" /\ ret'.arg = p
         /\ ~InfoFails(p)
         /\ ProvID(p) \in DOMAIN providers)
        => /\ ret'.err = "already registered"
           /\ providers' = providers
           /\ toolMap' = toolMap]_vars

\* pc was rejected because pa holds the ID "a"; pc lists y, which nobody
\* has indexed
C2_Witness ==
    /\ ret.op = "RegisterProvider" /\ ret.arg = "pc"
    /\ ret.err = "already registered"
    /\ "a" \in DOMAIN providers /\ providers["a"] = "pa"
    /\ <<"x">> \in DOMAIN toolMap /\ toolMap[<<"x">>] = "a"
    /\ <<"y">> \notin DOMAIN toolMap
    /\ ~failing["pc"]

\* C3: the index maps every tool name to one provider ID, and a successful
\* RegisterProvider of a provider whose tools can be listed keeps every
\* earlier index entry, adds the provider's other non-empty, unclaimed names
\* under its ID and nothing else, and returns success also when some of its
\* names collide.
C3_FirstRegistrantWins ==
    [][/\ toolMap' \in [DOMAIN toolMap' -> IDs]
       /\ \A p \in Provs :
            (/\ ret'.op = "RegisterProvider" /\ ret'.arg = p
             /\ ~InfoFails(p) /\ ProvID(p) # ""
             /\ ProvID(p) \notin DOMAIN providers
             /\ ~GetTools(p).err)
            => /\ ret'.err = NoErr
               /\ \A n \in DOMAIN toolMap :
                    n \in DOMAIN toolMap' /\ toolMap'[n] = toolMap[n]
               /\ \A n \in Range(ptools[p]) \ (DOMAIN toolMap \cup {EmptyName}) :
                    n \in DOMAIN toolMap' /\ toolMap'[n] = ProvID(p)
               /\ DOMAIN toolMap' \subseteq
                    DOMAIN toolMap \cup (Range(ptools[p]) \ {EmptyName})]_vars

\* pb has just registered listing x and y; x stayed with a, y went to b
C3_Witness ==
    /\ ret.op = "RegisterProvider" /\ ret.arg = "pb" /\ ret.err = NoErr
    /\ Range(ptools["pb"]) = {<<"x">>, <<"y">>}
    /\ DOMAIN toolMap = {<<"x">>, <<"y">>}
    /\ toolMap[<<"x">>] = "a" /\ toolMap[<<"y">>] = "b"

\* C5: UnregisterProvider(id) on a registered id removes the provider
\* record and exactly the index entries owned by id; every other record and
\* entry is unchanged and GetTool answers for the other tools as before.
C5_UnregisterFrame ==
    [][\A id \in IDs :
        (/\ ret'.op = "UnregisterProvider" /\ ret'.arg = id
         /\ id \in DOMAIN providers)
        => /\ ret'.err = NoErr
           /\ DOMAIN providers' = DOMAIN providers \ {id}
           /\ \A j \in DOMAIN providers' : providers'[j] = providers[j]
           /\ DOMAIN toolMap' = {n \in DOMAIN toolMap : toolMap[n] # id}
           /\ \A n \in DOMAIN toolMap' :
                /\ toolMap'[n] = toolMap[n]
                /\ RegistryGetTool(providers', toolMap', n)
                     = RegistryGetTool(providers, toolMap, n)]_vars

\* a was unregistered while b, which also lists x, owns y: y is still b's
C5_Witness ==
    /\ ret.op = "UnregisterProvider" /\ ret.arg = "a" /\ ret.err = NoErr
    /\ DOMAIN providers = {"b"}
    /\ DOMAIN toolMap = {<<"y">>} /\ toolMap[<<"y">>] = "b"
    /\ Range(ptools["pb"]) = {<<"x">>, <<"y">>}
    /\ Range(ptools["pa"]) = {<<"x">>}

\* C9: UnregisterProvider(id), on the registry or on the MCPServer, for an
\* id that is not registered returns an error and changes neither the
\* provider map nor the tool index.
C9_UnregisterUnknownFails ==
    [][\A id \in IDs :
        (/\ ret'.op \in {"UnregisterProvider", "MCPServer.UnregisterProvider"}
         /\ ret'.arg = id
         /\ id \notin DOMAIN providers)
        => /\ ret'.err # NoErr
           /\ providers' = providers
           /\ toolMap' = toolMap]_vars

\* b, once registered and then unregistered, is unregistered again
C9_Witness ==
    /\ ret.op \in {"UnregisterProvider", "MCPServer.UnregisterProvider"}
    /\ ret.arg = "b" /\ ret.err # NoErr
    /\ "b" \notin DOMAIN providers
    /\ everUnreg
    /\ DOMAIN toolMap # {}

\* the requests sent to a server with providers, and its inputs
ToolsList(id) == Envelope(id, <<"tools/list">>, NotObject)
ServerProvs == {"pa", "pb", "pc"}
ServerNames == {<<"x">>}
CalledNames == ServerNames \cup {Prefixed(n) : n \in ServerNames}

\* an MCPServer with providers and one directly added tool
NextServer ==
    \/ \E p \in ServerProvs \cup {NilProv} : SrvRegisterProvider(p)
    \/ \E id \in IDs : SrvUnregisterProvider(id)
    \/ \E p \in BaseProvs, t \in ServerNames : BaseRegisterTool(p, t, TRUE)
    \/ \E p \in BaseProvs, n \in ServerNames : BaseUnregisterTool(p, n)
    \/ \E p \in CustomProvs, b \in BOOLEAN : SetFailing(p, b)
    \/ SrvAddTool(Desc(<<"x">>, "d1"), "h1")
    \/ \E n \in ServerNames : GetTool(n)
    \/ \E n \in CalledNames, out \in {"ok", "err"} : Call(ToolsCall("1", n), out)
    \/ Call(ToolsList("1"), "ok")

SpecServer == Init /\ [][NextServer]_vars

\* the lines a client sends
Ids == {NoId, "1"}
StdioLines ==
    {Blank, Malformed, WrongShape}
    \cup {Envelope(i, m, NotObject) :
            i \in Ids, m \in {<<"ping">>, <<"foo/bar">>,
                              <<NotificationsPrefix, "initialized">>}}
    \cup {ToolsCall(i, n) : i \in Ids, n \in BaseNames}

\* what the input holds after its last newline: nothing, a request or a
\* notification
NoBytes == [kind |-> "no bytes", id |-> NoId, method |-> << >>,
            params |-> NotObject]
Unterminated ==
    {NoBytes, ToolsCall("1", <<"x">>),
     Envelope(NoId, <<NotificationsPrefix, "initialized">>, NotObject)}

\* a StdioServer listening, over an MCPServer to which the tool x may be added
NextStdio ==
    \/ ListenSelect
    \/ \E l \in StdioLines : ListenReadLine(l)
    \/ \E e \in {"EOF", "read error"}, rest \in Unterminated :
          ListenReadError(e, rest)
    \/ \E out \in Outcomes : ListenProcess(out)
    \/ \E heeds \in BOOLEAN : ListenProcessBlocks(heeds)
    \/ DeadlineExceeded
    \/ HandlerHeedsDeadline
    \/ \E out \in Outcomes : HandlerReturns(out)
    \/ \E w \in WriteErrors : ListenWrite(w)
    \/ Cancel
    \/ CloseInput
    \/ SrvAddTool(Desc(<<"x">>, "d1"), "h1")

SpecStdio == Init /\ [][NextStdio]_vars

\* the steps the running Listen takes by itself: its own code, the end of
\* the 30 seconds, the return of a user function that watches its context,
\* and the io.EOF of a closed input
ListenRuns ==
    \/ ListenSelect
    \/ \E rest \in Unterminated : ListenReadError("EOF", rest)
    \/ \E out \in Outcomes : ListenProcess(out)
    \/ \E heeds \in BOOLEAN : ListenProcessBlocks(heeds)
    \/ DeadlineExceeded
    \/ HandlerHeedsDeadline
    \/ \E w \in WriteErrors : ListenWrite(w)

SpecStdioLive == SpecStdio /\ WF_vars(ListenRuns)

\* the lines given to Process on its own
ProcMethods ==
    {<<"initialize">>, <<"ping">>, <<"tools/list">>, <<"foo/bar">>, << >>,
     <<NotificationsPrefix, "initialized">>, <<NotificationsPrefix, "custom">>}
ProcNames ==
    {NameMissing, NameNotString, EmptyName, <<"x">>, Prefixed(<<"x">>), <<"y">>}
ProcParams ==
    {NotObject}
    \cup {CallParams(n, "absent", "absent") : n \in ProcNames}
    \cup {CallParams(n, p, a) : n \in {<<"x">>, <<"y">>},
                                p \in FieldValues \ {"A"}, a \in FieldValues \ {"P"}}
\* what the called function does; whether its value can be encoded shows only
\* when Listen writes the response
ProcOutcomes == Outcomes \ {"bad"}
ProcLines ==
    {Blank, Malformed, WrongShape}
    \cup {Envelope(i, m, NotObject) : i \in Ids, m \in ProcMethods}
    \cup {Envelope(i, <<"tools/call">>, p) : i \in Ids, p \in ProcParams}
\* the methods the user registers handlers for
CustomMethods == {<<NotificationsPrefix, "custom">>}

\* a MessageProcessor given lines, over a server with the direct tool x and
\* the provider pb with its tool y
NextProcess ==
    \/ \E l \in ProcLines, out \in ProcOutcomes : Call(l, out)
    \/ \E m \in CustomMethods : RegisterHandler(m, CustomHandler)
    \/ SrvAddTool(Desc(<<"x">>, "d1"), "h1")
    \/ \E e \in BOOLEAN : BaseRegisterTool("pb", <<"y">>, e)
    \/ BaseUnregisterTool("pb", <<"y">>)
    \/ SrvRegisterProvider("pb")

SpecProcess == Init /\ [][NextProcess]_vars

\* the inputs of the ServerService mutations
ServiceTools == {Desc(<<"x">>, "d1"), Desc(<<"x">>, "d2")}
ServiceKeys == {<<"k">>}

\* a ServerService whose collections are changed through its own methods,
\* and whose tools are also added through the MCPServer
NextService ==
    \/ \E d \in ServiceTools, send \in SendOutcomes : SvcAddTool(d, send)
    \/ \E send \in SendOutcomes : SvcDeleteTool(<<"x">>, send)
    \/ \E k \in ServiceKeys, send \in SendOutcomes : SvcAddResource(k, "v1", send)
    \/ \E k \in ServiceKeys, send \in SendOutcomes : SvcDeleteResource(k, send)
    \/ \E k \in ServiceKeys, send \in SendOutcomes : SvcAddPrompt(k, "v1", send)
    \/ \E k \in ServiceKeys, send \in SendOutcomes : SvcDeletePrompt(k, send)
    \/ SrvAddTool(Desc(<<"y">>, "d1"), "h1")
    \/ SrvRegisterProvider("pc")

SpecService == Init /\ [][NextService]_vars

\* what the goroutines call
ConProvs == {"pb", "pc"}
ConNames == {<<"x">>}
ConHandlers == {"h1", "h2"}

\* two goroutines on one registry and one service; pb lists the tool x
NextWorkers ==
    \/ \E w \in Workers, p \in ConProvs :
          ConBegin(w, "RegisterProvider", p, EmptyName)
    \/ \E w \in Workers, id \in IDs :
          ConBegin(w, "UnregisterProvider", id, EmptyName)
    \/ \E w \in Workers, n \in ConNames : ConBegin(w, "GetTool", NilProv, n)
    \/ \E w \in Workers, id \in IDs : ConBegin(w, "GetProvider", id, EmptyName)
    \/ \E w \in Workers, n \in ConNames : ConBegin(w, "Call", NilProv, n)
    \/ \E w \in Workers, n \in ConNames, h \in ConHandlers :
          ConBegin(w, "RegisterToolHandler", h, n)
    \/ \E w \in Workers : ConLock(w)
    \/ \E w \in Workers : ConRLock(w)
    \/ \E w \in Workers : ConRegCheck(w)
    \/ \E w \in Workers : ConRegInsert(w)
    \/ \E w \in Workers : ConRegTool(w)
    \/ \E w \in Workers : ConUnregCheck(w)
    \/ \E w \in Workers : ConUnregTool(w)
    \/ \E w \in Workers : ConGetTool(w)
    \/ \E w \in Workers : ConGetProvider(w)
    \/ \E w \in Workers : ConCallGetTool(w)
    \/ \E w \in Workers : ConExecute(w)
    \/ \E w \in Workers : ConExecuted(w)
    \/ \E w \in Workers : ConRthWrite(w)
    \/ \E w \in Workers : ConRthCheck(w)
    \/ \E w \in Workers : ConRthWrite2(w)
    \/ \E w \in Workers, n \in ConNames, o \in RacedOutcomes :
          ConGetToolHandler(w, n, o)
    \/ BaseRegisterTool("pb", <<"x">>, TRUE)

SpecWorkers == Init /\ [][NextWorkers]_vars

-----------------------------------------------------------------------------
(* Properties of direct registration (SpecHandlers) *)

\* C7: after any sequence of RegisterToolHandler calls, for every registered
\* tool name T, GetToolHandler(T) and GetToolHandler("cortex_" + T) return
\* the identical handler, unless a tool was itself registered under the name
\* "cortex_" + T.
C7_AliasResolvesIdentically ==
    \A T \in registered :
        Prefixed(T) \notin registered
        => ServiceGetToolHandler(toolHandlers, T)
             = ServiceGetToolHandler(toolHandlers, Prefixed(T))

\* C8: MCPServer.AddTool with a tool and a handler under a name that is
\* already registered returns an error and leaves the stored descriptors and
\* handlers as they were.
C8_DuplicateAddToolRejected ==
    [][\A t \in Descs, h \in Funcs :
        (/\ ret'.op = "AddTool" /\ ret'.arg = <<t, h>>
         /\ t.name \in DOMAIN toolRepo)
        => /\ ret'.err # NoErr
           /\ srvTools' = srvTools /\ srvHandlers' = srvHandlers
           /\ toolRepo' = toolRepo /\ toolHandlers' = toolHandlers]_vars

-----------------------------------------------------------------------------
(* Properties of a server with providers (SpecServer) *)

\* the registrations, in order, that listed the name n
Listing(n) == {i \in DOMAIN regLog : n \in regLog[i].listed}
FirstRegistrant(n) ==
    regLog[CHOOSE i \in Listing(n) : \A j \in Listing(n) : i <= j].prov
IsToolsCall(r, n) ==
    /\ r.op = "Process"
    /\ r.arg.method = <<"tools/call">>
    /\ r.arg.params.name = n
IsToolsList(r) == r.op = "Process" /\ r.arg.method = <<"tools/list">>
Executors(r) == {r.exec[i] : i \in {j \in DOMAIN r.exec : r.exec[j].kind = "executor"}}

Stale(n) ==
    /\ n \in DOMAIN toolMap
    /\ toolMap[n] \in DOMAIN providers
    /\ ~GetTools(providers[toolMap[n]]).err
    /\ n \notin Range(GetTools(providers[toolMap[n]]).tools)

\* C6: while a name is stale, GetTool and tools/call for that name report an
\* error and no executor of a provider is run.
C6_StaleEntryRejected ==
    [][\A n \in ServerNames :
        Stale(n)
        => /\ (ret'.op = "GetTool" /\ ret'.arg = n) => ret'.err # NoErr
           /\ IsToolsCall(ret', n)
                => ret'.resp.kind = "error" /\ Executors(ret') = {}]_vars

\* C6, for the calls that a provider's adapter serves
C6_StaleEntryRejectedByAdapter ==
    [][\A n \in ServerNames :
        Stale(n)
        => /\ (ret'.op = "GetTool" /\ ret'.arg = n) => ret'.err # NoErr
           /\ IsToolsCall(ret', n)
                => /\ Executors(ret') = {}
                   /\ ServiceGetToolHandler(toolHandlers, n).kind = "provider"
                        => ret'.resp.kind = "error"]_vars

\* C29: after MCPServer.UnregisterProvider(id) has succeeded, tools/list
\* shows none of the tools that provider owned, and still shows the tools
\* that other providers own or that were added directly.
C29_UnregisteredToolsDelisted ==
    [][(ret'.op = "MCPServer.UnregisterProvider" /\ ret'.err = NoErr)
       => LET owned == {t \in DOMAIN toolMap : toolMap[t] = ret'.arg}
              before == {d.name : d \in RepoListTools(toolRepo)}
              after == {d.name : d \in RepoListTools(toolRepo')}
          IN /\ owned \cap after = {}
             /\ before \ owned \subseteq after]_vars

-----------------------------------------------------------------------------
(* Properties of the stdio loop (SpecStdio) *)

\* the responses on the output that answer line number n and carry id
Answers(n, id) == {i \in DOMAIN stdout : stdout[i].req = n /\ stdout[i].id = id}

\* C1: once Listen is done with a tools/call line whose tool name resolved
\* to a registered handler, exactly one response carrying the request's id
\* is on the output, whether the handler succeeded or failed (stated here
\* for the lines whose response met no failure of the output itself).
C1_ExactlyOneResponse ==
    (/\ lpc \in {"select", "read", "done"}
     /\ cur.resolved
     /\ cur.werr \notin {"write error", "broken pipe"})
    => Cardinality(Answers(cur.n, cur.line.id)) = 1

IsUnparsable(line) == line.kind \in {"malformed", "wrong shape"}

\* C10: for a line that is not blank and that json.Unmarshal rejects,
\* Process returns the error response -32700 "Parse error" with id null and
\* no Go error, runs no method handler and no tool handler, and Listen
\* writes that response and goes back to reading; it stops there only when
\* the write itself reports a terminal error of the output.
C10_ParseErrorAnswered ==
    [][/\ (ret'.op = "Process" /\ IsUnparsable(ret'.arg))
          => /\ ret'.resp = [kind |-> "error", jsonrpc |-> "2.0", id |-> "null",
                             code |-> -32700, message |-> <<"Parse error">>,
                             result |-> NilResult]
             /\ ret'.err = NoErr
             /\ ret'.invoked = << >> /\ ret'.exec = << >>
             /\ lpc' = "write" /\ listenRet' = "running"
       /\ (ret'.op = "Listen.write" /\ IsUnparsable(cur.line))
          => /\ ret'.err = "nil"
                => stdout' = Append(stdout, [req |-> cur.n, id |-> "null",
                                             kind |-> "error", code |-> -32700])
             /\ ret'.err # "broken pipe"
                => lpc' = "select" /\ listenRet' = "running"]_vars

\* the first line was unparsable and was answered with the parse error; Listen
\* has read a second line
C10_Witness ==
    /\ nread = 2 /\ cur.n = 2 /\ lpc = "process"
    /\ listenRet = "running"
    /\ stdout = <<[req |-> 1, id |-> "null", kind |-> "error", code |-> -32700]>>

\* a failure of the transport: ReadString failing otherwise than by the end
\* of the input, or writeResponse failing with a terminal error
IsTransportFailure(r) ==
    \/ r.op = "Listen.read" /\ r.err \notin {NoErr, "EOF"}
    \/ r.op = "Listen.write" /\ IsTerminalError(r.err)
\* a failure of writeResponse that is not terminal
IsOtherWriteFailure(r) ==
    r.op = "Listen.write" /\ r.err # "nil" /\ ~IsTerminalError(r.err)

\* C17: Listen stops with an error exactly when the transport has failed
\* (the return of ctx.Err() on cancellation left aside); every other error,
\* a non-terminal failure of writeResponse included, is recoverable: an error
\* response for the request is produced and the loop goes on.
C17_OtherErrorsAnswered ==
    [][/\ (listenRet = "running"
           /\ listenRet' \notin {"running", "nil", "context canceled"})
          => IsTransportFailure(ret')
       /\ IsTransportFailure(ret') => lpc' = "done" /\ listenRet' = ret'.err
       /\ (ret'.op = "Process" /\ ret'.resp.kind = "error")
          => lpc' = "write" /\ listenRet' = "running"
       /\ IsOtherWriteFailure(ret')
          => /\ lpc' = "select" /\ listenRet' = "running"
             /\ \E i \in DOMAIN stdout' :
                    stdout'[i].req = cur.n /\ stdout'[i].kind = "error"]_vars

\* C17 without the error response for a failed write: Listen stops with an
\* error exactly when the transport has failed; an error response that
\* Process returns goes to writeResponse, and after a failure of
\* writeResponse that is not terminal the loop goes on.
C17_OnlyTransportFailureStops ==
    [][/\ (listenRet = "running"
           /\ listenRet' \notin {"running", "nil", "context canceled"})
          => IsTransportFailure(ret')
       /\ IsTransportFailure(ret') => lpc' = "done" /\ listenRet' = ret'.err
       /\ (ret'.op = "Process" /\ ret'.resp.kind = "error")
          => lpc' = "write" /\ listenRet' = "running"
       /\ IsOtherWriteFailure(ret')
          => lpc' = "select" /\ listenRet' = "running"]_vars

\* the first request was answered with an error and the loop went on; the
\* write for the second request met a broken pipe and Listen returned it
C17_Witness ==
    /\ cur.n = 2 /\ cur.werr = "broken pipe"
    /\ lpc = "done" /\ listenRet = "broken pipe"
    /\ Len(stdout) = 1 /\ stdout[1].req = 1 /\ stdout[1].kind = "error"

\* C18: Listen does not go on to the next request (to read it and start its
\* handler) before the response to the request it has just handled is on
\* the output, unless that request produced none.
C18_PreviousResponseWritten ==
    (lpc \in {"select", "read"} /\ cur.resp.kind # "none")
    => \E i \in DOMAIN stdout : stdout[i].req = cur.n

\* C18, the order of the output: the output changes only when writeResponse
\* appends the whole response to the request in hand, after the responses
\* to the requests read before it.
C18_ResponsesInOrder ==
    [][stdout' # stdout
       => /\ ret'.op = "Listen.write" /\ lpc = "write"
          /\ stdout' = Append(stdout, Written(cur.n, cur.resp))
          /\ \A i \in DOMAIN stdout : stdout[i].req < cur.n]_vars

\* two requests were answered, one after the other
C18_Witness ==
    /\ Len(stdout) = 2
    /\ stdout[1].req = 1 /\ stdout[2].req = 2
    /\ lpc = "select"

-----------------------------------------------------------------------------
(* MessageProcessor.Process, one call at a time (SpecProcess) *)

\* a step that is a call of Process with an envelope
IsEnvelopeCall(r) == r.op = "Process" /\ r.arg.kind = "envelope"
\* a step that is a call of Process with a tools/call envelope whose params
\* are an object with a usable name
IsNamedToolsCall(r) ==
    /\ IsEnvelopeCall(r)
    /\ r.arg.method = <<"tools/call">>
    /\ r.arg.params.object
    /\ r.arg.params.name \notin {NameMissing, NameNotString, EmptyName}

\* C11: an envelope that is no notification (it carries an id, or its
\* method does not start with "notifications/") and whose method is not in
\* the dispatch table is answered with the error -32601
\* "Method '<method>' not found" that echoes the request's id.
C11_UnknownMethodRejected ==
    [][(/\ IsEnvelopeCall(ret')
        /\ (ret'.arg.id # NoId \/ ~IsNotificationMethod(ret'.arg.method))
        /\ ret'.arg.method \notin DOMAIN dispatch)
       => ret'.resp = [kind |-> "error", jsonrpc |-> "2.0", id |-> ret'.arg.id,
                       code |-> -32601,
                       message |-> <<"Method '">> \o ret'.arg.method
                                     \o <<"' not found">>,
                       result |-> NilResult]]_vars

\* C11 for the methods outside "notifications/": with or without an id, an
\* unregistered method is answered with -32601 echoing the id.
C11_UnknownPlainMethodRejected ==
    [][(/\ IsEnvelopeCall(ret')
        /\ ~IsNotificationMethod(ret'.arg.method)
        /\ ret'.arg.method \notin DOMAIN dispatch)
       => ret'.resp = [kind |-> "error", jsonrpc |-> "2.0", id |-> ret'.arg.id,
                       code |-> -32601,
                       message |-> <<"Method '">> \o ret'.arg.method
                                     \o <<"' not found">>,
                       result |-> NilResult]]_vars

\* an unregistered plain method was called with an id and rejected
C11_Witness ==
    /\ IsEnvelopeCall(ret)
    /\ ret.arg.method = <<"foo/bar">> /\ ret.arg.id = "1"
    /\ ret.resp.code = -32601 /\ ret.resp.id = "1"

\* C12: an envelope without id whose method starts with "notifications/"
\* gets no response and runs no handler, also when a handler is registered
\* under that very method.
C12_NotificationSilent ==
    [][(/\ IsEnvelopeCall(ret')
        /\ ret'.arg.id = NoId
        /\ IsNotificationMethod(ret'.arg.method))
       => /\ ret'.resp.kind = "none"
          /\ ret'.err = NoErr
          /\ ret'.invoked = << >> /\ ret'.exec = << >>]_vars

\* a notification arrived for a method that has a registered handler
C12_Witness ==
    /\ IsEnvelopeCall(ret)
    /\ ret.arg.id = NoId
    /\ IsNotificationMethod(ret.arg.method)
    /\ ret.arg.method \in DOMAIN dispatch
    /\ ret.resp.kind = "none"

\* C13: a tools/call whose params are no object, or whose name is missing,
\* no string or the empty string, is answered with -32602 and runs no tool
\* handler.
C13_BadNameRejected ==
    [][(/\ IsEnvelopeCall(ret')
        /\ ret'.arg.method = <<"tools/call">>
        /\ \/ ~ret'.arg.params.object
           \/ ret'.arg.params.name \in {NameMissing, NameNotString, EmptyName})
       => /\ ret'.resp.kind = "error"
          /\ ret'.resp.code = -32602
          /\ ret'.resp.id = ret'.arg.id
          /\ ret'.exec = << >>]_vars

\* a tools/call with the empty string for a name was rejected
C13_Witness ==
    /\ IsEnvelopeCall(ret)
    /\ ret.arg.method = <<"tools/call">>
    /\ ret.arg.params.object /\ ret.arg.params.name = EmptyName
    /\ ret.resp.code = -32602 /\ ret.exec = << >>

C15_InternalError ==
    [][IsNamedToolsCall(ret')
       => LET name == ret'.arg.params.name
              handler == ServiceGetToolHandler(toolHandlers, name)
              r == InvokeHandler(handler, ToolParams(ret'.arg.params), ret'.out)
          IN /\ handler = NilHandler
                => ret'.resp =
                     [kind |-> "error", jsonrpc |-> "2.0", id |-> ret'.arg.id,
                      code |-> -32603,
                      message |-> <<"Tool '">> \o name
                          \o <<"' is registered but has no implementation">>,
                      result |-> NilResult]
             /\ (handler # NilHandler /\ r.err)
                => /\ r.text # << >>
                   /\ ret'.resp =
                        [kind |-> "error", jsonrpc |-> "2.0",
                         id |-> ret'.arg.id, code |-> -32603,
                         message |-> <<"Error executing tool: ">> \o r.text,
                         result |-> NilResult]]_vars

\* the function given to AddTool returned an error, and the request that
\* carried the id 1 was answered with it
C15_Witness ==
    /\ IsNamedToolsCall(ret)
    /\ ret.out = "err"
    /\ ret.exec # << >> /\ ret.exec[1].kind = "handler"
    /\ ret.resp.id = "1" /\ ret.resp.code = -32603
    /\ ret.resp.message = <<"Error executing tool: ", "boom">>

\* C16: when the handler of the method returns a result R and no error, the
\* response is {"jsonrpc":"2.0","id":i,"result":R}, a nil R standing as the
\* empty object, and it has no error member.
C16_SuccessResponse ==
    [][(/\ IsEnvelopeCall(ret')
        /\ ~(ret'.arg.id = NoId /\ IsNotificationMethod(ret'.arg.method))
        /\ ret'.arg.method \in DOMAIN dispatch)
       => LET h == Handle(dispatch[ret'.arg.method], ret'.arg.params, ret'.out)
          IN h.code = 0
             => ret'.resp =
                  [kind |-> "result", jsonrpc |-> "2.0", id |-> ret'.arg.id,
                   code |-> 0, message |-> << >>,
                   result |-> IF h.result = NilResult THEN EmptyObject
                              ELSE h.result]]_vars

\* a tool handler returned nil and the response carries the empty object
C16_Witness ==
    /\ IsNamedToolsCall(ret)
    /\ ret.out = "nil" /\ ret.exec # << >>
    /\ ret.resp.kind = "result" /\ ret.resp.id = "1"
    /\ ret.resp.result = EmptyObject

\* C26: Process is total on the client's line: whatever the line, it
\* returns no Go error and either no response or one response with jsonrpc
\* "2.0" and exactly one of result and error; it returns no response only
\* for a blank line or a method under "notifications/".
C26_ProcessTotal ==
    [][ret'.op = "Process"
       => /\ ret'.err = NoErr
          /\ ret'.resp.kind \in {"none", "result", "error"}
          /\ ret'.resp.kind = "result"
             => /\ ret'.resp.jsonrpc = "2.0"
                /\ ret'.resp.code = 0 /\ ret'.resp.message = << >>
                /\ ret'.resp.result # NilResult
          /\ ret'.resp.kind = "error"
             => /\ ret'.resp.jsonrpc = "2.0"
                /\ ret'.resp.code # 0 /\ ret'.resp.result = NilResult
          /\ ret'.resp.kind = "none"
             => \/ ret'.arg.kind = "blank"
                \/ /\ ret'.arg.kind = "envelope"
                   /\ IsNotificationMethod(ret'.arg.method)]_vars

\* JSON that is no envelope was answered with an error, without a Go error
C26_Witness ==
    /\ ret.op = "Process" /\ ret.arg.kind = "wrong shape"
    /\ ret.err = NoErr
    /\ ret.resp.kind = "error" /\ ret.resp.jsonrpc = "2.0"

-----------------------------------------------------------------------------
(* ServerService and its notifications (SpecService) *)

ServiceAdds == {"Service.AddTool", "Service.AddResource", "Service.AddPrompt"}
ServiceDeletes ==
    {"Service.DeleteTool", "Service.DeleteResource", "Service.DeletePrompt"}
\* the repository operation alone: what it returns and what it leaves
Applied(r, before, after) ==
    IF r.op \in ServiceAdds
    THEN r.err = NoErr /\ after = Put(before, r.arg, r.value)
    ELSE IF r.arg \in DOMAIN before
    THEN r.err = NoErr /\ after = Drop(before, {r.arg})
    ELSE r.err = "not found" /\ after = before

\* C21: for each mutation of the ServerService, what the caller is returned
\* and what the repositories hold afterwards are what the repository
\* operation alone yields, whether the sender reports success or failure.
C21_SendFailureSwallowed ==
    [][ret'.op \in ServiceAdds \cup ServiceDeletes
       => /\ ret'.send \in SendOutcomes
          /\ ret'.op \in {"Service.AddTool", "Service.DeleteTool"}
             => /\ Applied(ret', toolRepo, toolRepo')
                /\ UNCHANGED <<resourceRepo, promptRepo>>
          /\ ret'.op \in {"Service.AddResource", "Service.DeleteResource"}
             => /\ Applied(ret', resourceRepo, resourceRepo')
                /\ UNCHANGED <<toolRepo, promptRepo>>
          /\ ret'.op \in {"Service.AddPrompt", "Service.DeletePrompt"}
             => /\ Applied(ret', promptRepo, promptRepo')
                /\ UNCHANGED <<toolRepo, resourceRepo>>]_vars

\* the sender failed on the notification of a DeleteTool that removed x; the
\* caller got no error
C21_Witness ==
    /\ ret.op = "Service.DeleteTool" /\ ret.send = "send failed"
    /\ ret.err = NoErr
    /\ <<"x">> \notin DOMAIN toolRepo
    /\ Len(sent) >= 2

\* C22: each mutation of the ServerService hands the sender exactly one
\* notification, with the method of its collection, and hands it over when
\* the repository operation has been applied (the sender finds the
\* collection as the operation left it).
C22_OneNotificationAfterMutation ==
    [][ret'.op \in ServiceAdds \cup ServiceDeletes
       => sent' = Append(sent,
            CASE ret'.op \in {"Service.AddTool", "Service.DeleteTool"}
                   -> [method |-> "tools/list/changed",
                       seen |-> DOMAIN toolRepo']
              [] ret'.op \in {"Service.AddResource", "Service.DeleteResource"}
                   -> [method |-> "resources/list/changed",
                       seen |-> DOMAIN resourceRepo']
              [] ret'.op \in {"Service.AddPrompt", "Service.DeletePrompt"}
                   -> [method |-> "prompts/list/changed",
                       seen |-> DOMAIN promptRepo'])]_vars

\* AddTool(x) and then AddPrompt(k) have each handed over one notification
C22_Witness ==
    sent = <<[method |-> "tools/list/changed", seen |-> {<<"x">>}],
             [method |-> "prompts/list/changed", seen |-> {<<"k">>}]>>

\* C30: every operation that adds a tool to the set tools/list serves hands
\* the sender a tools/list/changed notification.
C30_AddedToolAnnounced ==
    [][(DOMAIN toolRepo' \ DOMAIN toolRepo # {})
       => /\ Len(sent') = Len(sent) + 1
          /\ sent'[Len(sent')].method = "tools/list/changed"]_vars

-----------------------------------------------------------------------------
(* Progress of the stdio loop (SpecStdioLive) *)

\* C19: every execution of a tool handler ends: Process does not stay in
\* handler(ctx, toolParams, clientSession) for ever.
C19_ToolsCallEnds == (lpc = "handler") ~> (lpc # "handler")

\* C19 for the user functions that watch ctx.Done(): these are answered
C19_HeedingHandlerEnds ==
    (lpc = "handler" /\ cur.heeds) ~> (lpc = "write" /\ cur.resp.kind # "none")

\* C20: once the context is cancelled or the input is closed, Listen
\* returns (left aside the case that it is held inside a tool handler).
C20_ListenReturns ==
    (ctxDone \/ stdinClosed) ~> (lpc \in {"done", "handler"})

\* C20 for the closed input alone
C20_ClosedInputReturns == stdinClosed ~> (lpc \in {"done", "handler"})

-----------------------------------------------------------------------------
(* Goroutines on one registry and one service (SpecWorkers) *)

\* the places where a goroutine holds r.mu for reading
ReaderSections == {"gt.read", "gp.read", "call.read"}
IsLookup(r) == r.op \in {"Registry.GetTool", "Registry.GetProvider"}

\* C23: a goroutine whose serviceAdapter is inside provider.ExecuteTool holds
\* the registry's lock neither for reading nor for writing, and unless some
\* other goroutine is inside a registry call of its own, the lock is free for
\* RegisterProvider, UnregisterProvider and GetTool to take
C23_ExecutorHoldsNoLock ==
    \A w \in Workers :
        wk[w].pc = "exec" =>
            /\ w \notin mu.readers
            /\ mu.writer # w
            /\ (\A v \in Workers \ {w} :
                    wk[v].pc \notin WriterSections \cup ReaderSections)
               => (CanLock(mu) /\ CanRLock(mu))

\* C23: while w1 is inside ExecuteTool, w2 has unregistered the very
\* provider that is executing
C23_Witness ==
    /\ wk["w1"].pc = "exec"
    /\ ret.op = "Registry.UnregisterProvider"
    /\ ret.by = "w2"
    /\ ret.err = NoErr
    /\ ProvID(wk["w1"].prov) \notin DOMAIN providers

\* C24: when GetTool or GetProvider reads the registry, no goroutine is in
\* the middle of RegisterProvider's or UnregisterProvider's change, every
\* indexed tool's provider ID has a provider record, and GetTool does not
\* answer that the provider of an indexed tool is no longer registered
C24_LookupsSeeWholeChanges ==
    [][IsLookup(ret') =>
          /\ \A v \in Workers : wk[v].pc \notin WriterSections
          /\ \A n \in DOMAIN toolMap : toolMap[n] \in DOMAIN providers
          /\ ret'.err # "provider is no longer registered"]_vars

\* C24: GetTool has found x at a provider while the other goroutine waits
\* for the lock to unregister that provider
C24_Witness ==
    /\ ret.op = "Registry.GetTool"
    /\ ret.err = NoErr
    /\ \E v \in Workers \ {ret.by} :
          /\ wk[v].pc = "unreg.lock"
          /\ wk[v].prov = ProvID(ret.prov)

\* C25: no GetToolHandler reads the handler map while another goroutine is
\* assigning to it in RegisterToolHandler
C25_HandlerMapExclusive ==
    [][ret'.op = "Service.GetToolHandler" => ~ret'.raced]_vars

-----------------------------------------------------------------------------
(* The adapters of a provider with several tools (SpecAdapters) *)

AdapterProvs == {"pb", "pc"}
AdapterCalls == BaseNames \cup {Prefixed(n) : n \in BaseNames}

\* an MCPServer with the providers pb (to which x and y are added in either
\* order) and pc (which lists the empty name, x and y)
NextAdapters ==
    \/ \E p \in AdapterProvs : SrvRegisterProvider(p)
    \/ \E id \in IDs : SrvUnregisterProvider(id)
    \/ \E t \in BaseNames : BaseRegisterTool("pb", t, TRUE)
    \/ \E n \in AdapterCalls : Call(ToolsCall("1", n), "ok")

SpecAdapters == Init /\ [][NextAdapters]_vars

\* C31: after a successful MCPServer.RegisterProvider(p) the handler found
\* under each tool name t of p is the adapter that passes on t; and a
\* tools/call for t, or for "cortex_" + t when that is no registered name
\* itself, runs no executor with a ToolName other than t, and does run one
\* whenever it succeeds through a provider's adapter.
C31_AdapterPassesOwnName ==
    [][/\ \A p \in AdapterProvs :
            (/\ ret'.op = "MCPServer.RegisterProvider"
             /\ ret'.arg = p /\ ret'.err = NoErr)
            => \A t \in Range(ptools[p]) :
                  ServiceGetToolHandler(toolHandlers', t) = ProviderAdapter(t, p)
       /\ \A t \in BaseNames : \A c \in {t, Prefixed(t)} :
            (IsToolsCall(ret', c) /\ (c = t \/ c \notin registered))
            => /\ \A e \in Executors(ret') : e.name = t
               /\ (/\ ret'.resp.kind = "result"
                   /\ ServiceGetToolHandler(toolHandlers, c).kind = "provider")
                  => Executors(ret') # {}]_vars

\* pc, which lists x before y, is registered; a tools/call for cortex_x has
\* just run pc's executor for x, and the handler under y passes on y
C31_Witness ==
    /\ DOMAIN providers = {"a"} /\ providers["a"] = "pc"
    /\ IsToolsCall(ret, Prefixed(<<"x">>))
    /\ ret.resp.kind = "result"
    /\ Executors(ret) = {Executed("executor", "pc", <<"x">>, "P")}
    /\ toolHandlers[<<"y">>] = ProviderAdapter(<<"y">>, "pc")

-----------------------------------------------------------------------------
(* Process keeps no state (SpecStateless) *)

\* the lines whose answers are compared before and after a call of Process
ProbeLines ==
    {Envelope("1", <<"initialize">>, NotObject), ToolsList("1"),
     ToolsCall("1", <<"x">>), ToolsCall("1", <<"y">>)}

\* the lines given to Process
StatelessLines == ProbeLines \cup {Malformed, Envelope("1", <<"ping">>, NotObject)}

\* a MessageProcessor given lines in any order, over a server to which the
\* direct tool x and the provider pb with its tool y come and go
NextStateless ==
    \/ \E l \in StatelessLines, out \in ProcOutcomes : Call(l, out)
    \/ SrvAddTool(Desc(<<"x">>, "d1"), "h1")
    \/ BaseRegisterTool("pb", <<"y">>, TRUE)
    \/ BaseUnregisterTool("pb", <<"y">>)
    \/ SrvRegisterProvider("pb")
    \/ SrvUnregisterProvider("b")

SpecStateless == Init /\ [][NextStateless]_vars

\* C32: a call of Process, whatever its line, changes nothing that Process
\* reads (the dispatch table, the handler map, the repository, the registry,
\* the providers), and the response Process gives to initialize, tools/list
\* and tools/call is the same after the call as before it; so the answer to a
\* line does not depend on the lines processed earlier, an initialize included.
C32_ProcessKeepsNoState ==
    [][ret'.op = "Process"
       => /\ UNCHANGED <<regVars, provVars, srvVars, dispatch>>
          /\ \A l \in ProbeLines, out \in ProcOutcomes :
                Process(l, out)' = Process(l, out)]_vars

\* a tools/call for x has been answered with the handler's value after an
\* initialize request had been processed
C32_Witness ==
    /\ initSeen
    /\ IsToolsCall(ret, <<"x">>)
    /\ ret.resp.kind = "result"
    /\ ret.exec # << >>

-----------------------------------------------------------------------------
(* Registrations racing for one ID (SpecRace) *)

\* pa and pc carry the ID "a"
RaceProvs == {"pa", "pc"}

\* two goroutines registering pa and pc, pa being given x and y meanwhile
NextRace ==
    \/ \E w \in Workers, p \in RaceProvs :
          ConBegin(w, "RegisterProvider", p, EmptyName)
    \/ \E w \in Workers : ConLock(w)
    \/ \E w \in Workers : ConRegCheck(w)
    \/ \E w \in Workers : ConRegInsert(w)
    \/ \E w \in Workers : ConRegTool(w)
    \/ \E t \in BaseNames : BaseRegisterTool("pa", t, TRUE)

SpecRace == Init /\ [][NextRace]_vars

\* the index entries of id are names that the provider p lists
IndexedOnlyFrom(tm, id, p) ==
    \A n \in DOMAIN tm : tm[n] = id => n \in Range(ptools[p])

\* C33: of the calls of RegisterProvider with providers of one ID, the one
\* that returns success is the one whose provider is recorded, and the record
\* is never replaced; every other call returns the already-registered error
\* and changes nothing; at each return the index entries of the ID are tools
\* of the recorded provider only.
C33_OneRegistrationWins ==
    [][/\ \A id \in DOMAIN providers :
            id \in DOMAIN providers' /\ providers'[id] = providers[id]
       /\ ret'.op = "Registry.RegisterProvider"
          => LET p == ret'.arg
                 id == ProvID(p)
             IN /\ ret'.err \in {NoErr, "already registered"}
                /\ id \in DOMAIN providers'
                /\ IndexedOnlyFrom(toolMap', id, providers'[id])
                /\ ret'.err = NoErr
                   => /\ providers'[id] = p
                      /\ \A v \in Workers \ {ret'.by} :
                            wk[v].pc \notin WriterSections
                /\ ret'.err # NoErr
                   => /\ id \in DOMAIN providers
                      /\ providers' = providers /\ toolMap' = toolMap]_vars

\* pa, which lists x, won the ID "a"; the registration of pc, which lists
\* x and y, has just been refused and y is not indexed
C33_Witness ==
    /\ ret.op = "Registry.RegisterProvider"
    /\ ret.arg = "pc" /\ ret.err = "already registered"
    /\ providers["a"] = "pa"
    /\ ptools["pa"] = <<<<"x">>>>
    /\ DOMAIN toolMap = {<<"x">>}

-----------------------------------------------------------------------------
(* Executors and unregistration (SpecWorkers) *)

\* the provider object p is the one recorded under its ID
Registered(p) == ProvID(p) \in DOMAIN providers /\ providers[ProvID(p)] = p

\* C34 as stated: when a serviceAdapter starts a provider's executor, that
\* provider is registered (no UnregisterProvider for it has returned since
\* it was registered)
C34_NoExecutorAfterUnregister ==
    [][(ret'.op = "ExecuteTool.start" /\ ret'.err = NoErr)
       => Registered(ret'.prov)]_vars

\* C34 amended: the executor a serviceAdapter starts is that of the provider
\* its own GetTool lookup returned, and a lookup returns a provider only
\* while that provider is registered and no registration or unregistration
\* is half done; a lookup made after UnregisterProvider has returned finds
\* nothing of that provider.
C34_ExecutorOfProviderFound ==
    [][/\ (ret'.op = "Registry.GetTool" /\ ret'.err = NoErr)
          => /\ Registered(ret'.prov)
             /\ toolMap[ret'.arg] = ProvID(ret'.prov)
             /\ \A v \in Workers : wk[v].pc \notin WriterSections
       /\ ret'.op = "ExecuteTool.start"
          => /\ wk[ret'.by].pc = "call.found"
             /\ ret'.prov = wk[ret'.by].prov]_vars

\* pb, which lists x, is not registered (any more) and a lookup of x has
\* just been refused, while the other goroutine, which found pb earlier, is
\* inside pb's executor
C34_Witness ==
    /\ ret.op = "Registry.GetTool"
    /\ ret.arg = <<"x">> /\ ret.err = "tool is not registered"
    /\ "b" \notin DOMAIN providers
    /\ \E v \in Workers \ {ret.by} : wk[v].pc = "exec" /\ wk[v].prov = "pb"

-----------------------------------------------------------------------------
(* Registration undone by unregistration (SpecRegistry) *)

\* C35: when a successful RegisterProvider(P) is directly followed by
\* UnregisterProvider(P.ID), the second call succeeds and the provider map
\* and the tool index are again what they were before the first call,
\* whether or not names of P were already indexed for another provider.
C35_RegisterUnregisterRestores ==
    [][(ret'.op = "UnregisterProvider" /\ Registers(ret, ret'.arg))
       => /\ ret'.err = NoErr
          /\ providers' = ret.before.providers
          /\ toolMap' = ret.before.toolMap]_vars

\* pb, which lists x and y, was registered while x was indexed for a, and
\* has been unregistered at once: x is still a's and y is gone again
C35_Witness ==
    /\ ret.op = "UnregisterProvider" /\ ret.arg = "b" /\ ret.undoes
    /\ ret.err = NoErr
    /\ Range(ptools["pb"]) = {<<"x">>, <<"y">>}
    /\ DOMAIN providers = {"a"}
    /\ DOMAIN toolMap = {<<"x">>} /\ toolMap[<<"x">>] = "a"

-----------------------------------------------------------------------------
(* Names left without an owner (SpecRegistry) *)

\* the registered providers, other than id, whose list has the name
ListedBy(provs, n, id) ==
    {j \in DOMAIN provs \ {id} :
        ~GetTools(provs[j]).err /\ n \in Range(GetTools(provs[j]).tools)}

-----------------------------------------------------------------------------
(* A failed MCPServer.RegisterProvider (SpecServer) *)

\* C37: when MCPServer.RegisterProvider returns an error the call has
\* registered nothing: the provider map, the tool index, the tool
\* repository and the handlers are what they were before the call.
C37_FailedRegistrationRegistersNothing ==
    [][(ret'.op = "MCPServer.RegisterProvider" /\ ret'.err # NoErr)
       => /\ providers' = providers
          /\ toolMap' = toolMap
          /\ toolRepo' = toolRepo
          /\ toolHandlers' = toolHandlers]_vars

-----------------------------------------------------------------------------
(* The end of the input (SpecStdio) *)

\* a message that asks for a response
IsRequest(line) == line.kind = "envelope" /\ line.id # NoId

\* C38: when Listen returns nil at the end of the input, every request it
\* read has been handed to Process and its response written; none is left
\* in the bytes read after the last newline.
C38_EveryRequestProcessed ==
    [][(ret'.op = "Listen.read" /\ ret'.err = "EOF")
       => /\ listenRet' = "nil"
          /\ ~IsRequest(ret'.rest)]_vars

-----------------------------------------------------------------------------
(* DefaultRegistry.ListTools against GetTool (SpecListing) *)

\* a registry whose providers are registered, unregistered and changed
NextListing ==
    \/ \E p \in BaseProvs \cup CustomProvs : RegisterProvider(p)
    \/ \E id \in IDs : UnregisterProvider(id)
    \/ \E p \in BaseProvs, t \in BaseNames : BaseRegisterTool(p, t, TRUE)
    \/ \E p \in BaseProvs, n \in BaseNames : BaseUnregisterTool(p, n)
    \/ \E p \in CustomProvs, b \in BOOLEAN : SetFailing(p, b)
    \/ ListTools

SpecListing == Init /\ [][NextListing]_vars

\* C39: every tool ListTools returns resolves, by GetTool of its name, to
\* the provider from whose list it came, and no two tools ListTools returns
\* have the same name.
C39_ListedToolsResolve ==
    [][ret'.op = "ListTools"
       => /\ \A e \in ret'.tools :
                LET g == RegistryGetTool(providers, toolMap, e.name) IN
                g.err = NoErr /\ g.prov = e.from
          /\ \A e, f \in ret'.tools : e.name = f.name => e = f]_vars

-----------------------------------------------------------------------------
(* The names GetToolHandler resolves (SpecHandlers) *)

\* name is n, or n with one "cortex_" put before it or taken away
WithinOnePrefix(name, n) ==
    \/ name = n
    \/ name = Prefixed(n)
    \/ HasPrefix(n) /\ name = Tail(n)

\* C40: GetToolHandler returns a handler only for a name that is a
\* registered name or differs from one by exactly one "cortex_" prefix;
\* for every other name it returns no handler.
C40_ResolvesWithinOnePrefix ==
    [][(ret'.op = "GetToolHandler" /\ ret'.handler # NilHandler)
       => \E n \in registered : WithinOnePrefix(ret'.arg, n)]_vars

=============================================================================
